---- MODULE Spec2Model ----
(***************************************************************************)
(* Versioned symmetric encryption envelope of tutanota-crypto:             *)
(* SymmetricKeyDeriver, AesCbcFacade, AeadFacade, SymmetricCipherFacade    *)
(* and the legacy entry points of Aes.ts.                                  *)
(*                                                                         *)
(* Byte arrays are sequences of integers 0..255 with their real lengths.   *)
(* The hash, HKDF, HMAC and AES-CBC collaborators are small computable     *)
(* stand-ins: CBC is a keyed, IV-chained bijection on 16-byte blocks, the   *)
(* MAC depends on the key and on every byte and the length of its input.   *)
(***************************************************************************)
EXTENDS Integers, Sequences, FiniteSets, TLC

\* ------------------------------------------------------------ fixed values
BLOCK_SIZE_BYTES == 16
IV_BYTE_LENGTH == BLOCK_SIZE_BYTES
SYMMETRIC_CIPHER_VERSION_PREFIX_LENGTH_BYTES == 1
SYMMETRIC_AUTHENTICATION_TAG_LENGTH_BYTES == 32
MAC_LENGTH_BYTES == 32
MAC_ENABLED_PREFIX == 1
AES256_KEY_LENGTH_BYTES == 32
Aes128 == 128
Aes256 == 256

\* hexToUint8Array("88888888888888888888888888888888")
FIXED_IV == [i \in 1..IV_BYTE_LENGTH |-> 136]

UnusedReservedUnauthenticated == "UnusedReservedUnauthenticated"
AesCbcThenHmac == "AesCbcThenHmac"
Aead == "Aead"
SymmetricCipherVersion == {UnusedReservedUnauthenticated, AesCbcThenHmac, Aead}

\* SymmetricCipherVersion.asBytes / symmetricCipherVersionToUint8Array
asBytes(version) ==
    CASE version = UnusedReservedUnauthenticated -> <<0>>
      [] version = AesCbcThenHmac -> <<1>>
      [] version = Aead -> <<2>>

\* SymmetricCipherVersion.getFromCiphertext: the leading byte selects the
\* version when it is a known tag; anything else is the untagged legacy format.
getFromCiphertext(cipherText) ==
    IF Len(cipherText) = 0 THEN UnusedReservedUnauthenticated
    ELSE CASE cipherText[1] = 1 -> AesCbcThenHmac
           [] cipherText[1] = 2 -> Aead
           [] OTHER -> UnusedReservedUnauthenticated

\* null (an absent authentication key); no byte array equals it
Null == <<-1>>

\* ------------------------------------------------------------- results
\* A call either returns bytes or throws; calls lists the collaborators the
\* call invoked, in program order.
Ok(val, calls) == [ok |-> TRUE, val |-> val, err |-> "", calls |-> calls]
Throw(err, calls) == [ok |-> FALSE, val |-> <<>>, err |-> err, calls |-> calls]

\* ---------------------------------------------------------- byte helpers
\* Arrays.copyOfRange(a, from, to) / subarray(from, to) for 0 <= from <= to <= length
\* (0-based, to exclusive)
copyOfRange(a, from, to) == SubSeq(a, from + 1, to)

RECURSIVE SumBytes(_)
SumBytes(s) == IF s = <<>> THEN 0 ELSE s[1] + SumBytes(Tail(s))

\* one bit of one byte inverted (pos is 1-based, bit 0 is the least significant)
FlipBit(s, pos, bit) ==
    LET p == 2 ^ bit
        b == s[pos]
    IN [s EXCEPT ![pos] = IF (b \div p) % 2 = 1 THEN b - p ELSE b + p]

\* ------------------------------------------------------ hash collaborators
\* sha256Hash / ShaFacade.hash: 32 bytes determined by the input
sha256Hash(x) ==
    [i \in 1..32 |-> IF Len(x) = 0 THEN (7 * i) % 256
                     ELSE (3 * x[((i - 1) % Len(x)) + 1] + 5 * i + Len(x) + 11) % 256]

\* sha512Hash / ShaFacade.hash512: 64 bytes determined by the input
sha512Hash(x) ==
    [i \in 1..64 |-> IF Len(x) = 0 THEN (11 * i) % 256
                     ELSE (5 * x[((i - 1) % Len(x)) + 1] + 3 * i + Len(x) + 29) % 256]

\* hkdf(salt, ikm, info, length): length bytes determined by ikm and info
\* (the salt is always null here)
hkdf(salt, ikm, info, length) ==
    [i \in 1..length |-> (7 * ikm[((i - 1) % Len(ikm)) + 1] + SumBytes(info)
                            + 13 * i + Len(info)) % 256]

\* hmacSha256(key, data) / HMacFacade.hmac256: a 32-byte tag. Lane i of the tag
\* sums key byte i and the data bytes at positions i, i+32, i+64, ... each
\* weighted by its round, modulo the prime 251: any change of a single byte,
\* any appended byte and any change of the key changes the tag.
RECURSIVE LaneSum(_, _, _)
LaneSum(data, j, round) ==
    IF j > Len(data) THEN 0
    ELSE (data[j] + 1) * round + LaneSum(data, j + MAC_LENGTH_BYTES, round + 1)

hmacSha256(key, data) ==
    [i \in 1..MAC_LENGTH_BYTES |->
        (key[((i - 1) % Len(key)) + 1] + LaneSum(data, i, 1)) % 251]

\* ------------------------------------------------------------ CBC engine
\* the block cipher's key schedule, one byte per block position
KeyByte(key, i) == (key[i] + 2 * key[Len(key) - i + 1] + 1) % 256

PkcsPad(p) ==
    LET n == BLOCK_SIZE_BYTES - (Len(p) % BLOCK_SIZE_BYTES)
    IN p \o [i \in 1..n |-> n]

RECURSIVE CbcChain(_, _, _)
CbcChain(key, prev, p) ==
    IF p = <<>> THEN <<>>
    ELSE LET blk == [i \in 1..BLOCK_SIZE_BYTES |->
                        (p[i] + prev[i] + KeyByte(key, i)) % 256]
         IN blk \o CbcChain(key, blk, SubSeq(p, BLOCK_SIZE_BYTES + 1, Len(p)))

\* sjcl.mode.cbc.encrypt / Cipher.doFinal in ENCRYPT_MODE
CbcEncrypt(key, iv, plainText, padding) ==
    IF Len(iv) # IV_BYTE_LENGTH THEN Throw("InvalidIvLength", <<>>)
    ELSE IF ~padding /\ Len(plainText) % BLOCK_SIZE_BYTES # 0
    THEN Throw("InvalidBlockLength", <<>>)
    ELSE Ok(CbcChain(key, iv, IF padding THEN PkcsPad(plainText) ELSE plainText), <<>>)

CbcUnchain(key, iv, c) ==
    [n \in 1..Len(c) |->
        LET prev == IF n <= BLOCK_SIZE_BYTES THEN iv[n] ELSE c[n - BLOCK_SIZE_BYTES]
        IN (c[n] - prev - KeyByte(key, ((n - 1) % BLOCK_SIZE_BYTES) + 1) + 768) % 256]

\* sjcl.mode.cbc.decrypt / Cipher.doFinal in DECRYPT_MODE
CbcDecrypt(key, iv, c, padding) ==
    IF Len(iv) # IV_BYTE_LENGTH THEN Throw("DecryptionFailed", <<>>)
    ELSE IF Len(c) % BLOCK_SIZE_BYTES # 0 THEN Throw("DecryptionFailed", <<>>)
    ELSE LET out == CbcUnchain(key, iv, c)
         IN IF ~padding THEN Ok(out, <<>>)
            ELSE IF Len(out) = 0 THEN Throw("DecryptionFailed", <<>>)
            ELSE LET bi == out[Len(out)]
                 IN IF bi = 0 \/ bi > BLOCK_SIZE_BYTES
                       \/ \E k \in (Len(out) - bi + 1)..Len(out) : out[k] # bi
                    THEN Throw("DecryptionFailed", <<>>)
                    ELSE Ok(SubSeq(out, 1, Len(out) - bi), <<>>)

\* ------------------------------------------------------- key length policy
ACCEPTED_BIT_LENGTHS == {Aes128, Aes256}

getKeyLengthAsBytes(keyLength) == keyLength \div 8

\* An sjcl BitArray is modelled as its sequence of 32-bit words, each word as
\* the sequence of the bytes it holds: four, or fewer in a partial last word.
\* sjcl.codec.arrayBuffer.toBits: whole words first, then a partial word for
\* the remaining 1..3 bytes
sjcl_arrayBuffer_toBits(buffer) ==
    [w \in 1..((Len(buffer) + 3) \div 4) |->
        SubSeq(buffer, 4 * w - 3, IF 4 * w <= Len(buffer) THEN 4 * w ELSE Len(buffer))]

\* sjcl.codec.arrayBuffer.fromBits(bits, false): the bytes of the words in
\* order, no padding
sjcl_arrayBuffer_fromBits(bits) ==
    LET RECURSIVE Bytes(_)
        Bytes(ws) == IF ws = <<>> THEN <<>> ELSE ws[1] \o Bytes(Tail(ws))
    IN Bytes(bits)

\* Variant of bitArrayToUint8Array that lets fromBits pad, as it does without
\* its second argument: zero bytes up to a multiple of 8 (C21 depends on the
\* argument false)
bitArrayToUint8Array_Padded(bits) ==
    LET bytes == sjcl_arrayBuffer_fromBits(bits)
    IN bytes \o [i \in 1..((8 - (Len(bytes) % 8)) % 8) |-> 0]

bitArrayToUint8Array(bits) == sjcl_arrayBuffer_fromBits(bits)

uint8ArrayToBitArray(uint8Array) == sjcl_arrayBuffer_toBits(uint8Array)

\* getAndVerifyAesKeyLength(key, acceptedBitLengths): key is a BitArray and
\* key.length its number of words; the result is 0 where the code throws
\* CryptoError("Illegal key length")
getAndVerifyAesKeyLength(key, acceptedBitLengths) ==
    LET keyLength == Len(key) * 4 * 8
    IN IF keyLength \in acceptedBitLengths THEN keyLength ELSE 0

\* AesKeyLength.get(key) of the Java side, by the length of key.getEncoded():
\* 0 where it throws
AesKeyLength_get(key) ==
    IF Len(key) = getKeyLengthAsBytes(Aes128) THEN Aes128
    ELSE IF Len(key) = getKeyLengthAsBytes(Aes256) THEN Aes256
    ELSE 0

\* ------------------------------------------------------------ key encoding
\* A base64 string is modelled as the sequence of its characters' indexes in
\* the base64 alphabet, 0..63; Base64Pad stands for '=' and any larger number
\* for a character outside the alphabet.
Base64Pad == 64

\* sjcl.codec.base64.fromBits(arr): six bits of the array per character, the
\* last character filled up with zero bits, then '=' up to a multiple of four
\* characters
sjcl_base64_fromBits(arr) ==
    LET bytes == sjcl_arrayBuffer_fromBits(arr)
        n == (8 * Len(bytes) + 5) \div 6
        Bit(j) == IF j \div 8 < Len(bytes) THEN (bytes[j \div 8 + 1] \div 2^(7 - (j % 8))) % 2
                  ELSE 0
        Char(k) == 32 * Bit(6 * k - 6) + 16 * Bit(6 * k - 5) + 8 * Bit(6 * k - 4)
                      + 4 * Bit(6 * k - 3) + 2 * Bit(6 * k - 2) + Bit(6 * k - 1)
    IN [k \in 1..n |-> Char(k)] \o [k \in 1..((4 - (n % 4)) % 4) |-> Base64Pad]

\* sjcl.codec.base64.toBits(str): drops '=', throws on a character outside the
\* alphabet, packs six bits per character into words and keeps of the last,
\* incomplete word the whole bytes only
sjcl_base64_toBits(str) ==
    LET chars == SelectSeq(str, LAMBDA c : c # Base64Pad)
        Bit(j) == (chars[j \div 6 + 1] \div 2^(5 - (j % 6))) % 2
        Byte(m) == 128 * Bit(8 * m - 8) + 64 * Bit(8 * m - 7) + 32 * Bit(8 * m - 6)
                      + 16 * Bit(8 * m - 5) + 8 * Bit(8 * m - 4) + 4 * Bit(8 * m - 3)
                      + 2 * Bit(8 * m - 2) + Bit(8 * m - 1)
    IN IF \E i \in 1..Len(chars) : chars[i] \notin 0..63
       THEN Throw("this isn't base64!", <<>>)
       ELSE Ok(sjcl_arrayBuffer_toBits([m \in 1..((6 * Len(chars)) \div 8) |-> Byte(m)]), <<>>)

keyToBase64(key) == sjcl_base64_fromBits(key)

\* base64ToKey of the earlier utilities (part_001): decodes and returns what
\* it decoded
base64ToKey_part_001(base64) ==
    LET key == sjcl_base64_toBits(base64)
    IN IF ~key.ok THEN Throw("hex to aes key failed", <<"sjcl.codec.base64.toBits">>)
       ELSE Ok(key.val, <<"sjcl.codec.base64.toBits">>)

\* base64ToKey of SymmetricCipherUtils.ts: whatever is thrown inside, by the
\* decoder or by getAndVerifyAesKeyLength, leaves as CryptoError("hex to aes
\* key failed")
base64ToKey(base64) ==
    LET key == sjcl_base64_toBits(base64)
    IN IF ~key.ok THEN Throw("hex to aes key failed", <<"sjcl.codec.base64.toBits">>)
       ELSE IF getAndVerifyAesKeyLength(key.val, ACCEPTED_BIT_LENGTHS) = 0
       THEN Throw("hex to aes key failed",
                  <<"sjcl.codec.base64.toBits", "getAndVerifyAesKeyLength">>)
       ELSE Ok(key.val, <<"sjcl.codec.base64.toBits", "getAndVerifyAesKeyLength">>)

uint8ArrayToKey(array) ==
    LET key == uint8ArrayToBitArray(array)
    IN IF getAndVerifyAesKeyLength(key, ACCEPTED_BIT_LENGTHS) = 0
       THEN Throw("InvalidKeyLength", <<"getAndVerifyAesKeyLength">>)
       ELSE Ok(key, <<"getAndVerifyAesKeyLength">>)

keyToUint8Array(key) == bitArrayToUint8Array(key)

\* bytesToKey of the Java utilities: InvalidKeyException unless the array has
\* 16 or 32 bytes
bytesToKey(key) ==
    IF Len(key) # getKeyLengthAsBytes(Aes128) /\ Len(key) # getKeyLengthAsBytes(Aes256)
    THEN Throw("InvalidKeyException", <<>>)
    ELSE Ok(key, <<>>)

\* --------------------------------------------------------- sub-key deriver
SubKeys(encryptionKey, authenticationKey) ==
    [ok |-> TRUE, err |-> "", encryptionKey |-> encryptionKey,
     authenticationKey |-> authenticationKey]
NoSubKeys(err) ==
    [ok |-> FALSE, err |-> err, encryptionKey |-> Null, authenticationKey |-> Null]

\* "AEAD key splitting".getBytes()
AEAD_KEY_DERIVATION_INFO ==
    <<65, 69, 65, 68, 32, 107, 101, 121, 32, 115, 112, 108, 105, 116, 116, 105, 110, 103>>

\* Uint8Array.from("AEAD key splitting"): each character is converted with
\* Number(), which is NaN for a letter and 0 for a blank; NaN is stored as 0
AEAD_KEY_DERIVATION_INFO_AsUint8Array == [i \in 1..Len(AEAD_KEY_DERIVATION_INFO) |-> 0]

\* Variant of the hash split that cuts both sub-keys from the first half of
\* the hash (C13 depends on the two halves being used)
HashedSubKeysTs_SameHalf(key, keyLength) ==
    LET hashedKey == IF keyLength = Aes128 THEN sha256Hash(key) ELSE sha512Hash(key)
        n == getKeyLengthAsBytes(keyLength)
    IN SubKeys(copyOfRange(hashedKey, 0, n), copyOfRange(hashedKey, 0, n))

\* The hash split of AesCbcThenHmac, TypeScript
HashedSubKeysTs(key, keyLength) ==
    LET hashedKey == IF keyLength = Aes128 THEN sha256Hash(key) ELSE sha512Hash(key)
        n == getKeyLengthAsBytes(keyLength)
    IN SubKeys(copyOfRange(hashedKey, 0, n), copyOfRange(hashedKey, n, Len(hashedKey)))

\* Variant of deriveSubKeys without the key-length gate of
\* UnusedReservedUnauthenticated (C7 depends on the gate)
deriveSubKeys_Ungated(key, symmetricCipherVersion) ==
    LET keyLength == getAndVerifyAesKeyLength(uint8ArrayToBitArray(key), ACCEPTED_BIT_LENGTHS)
    IN IF keyLength = 0 THEN NoSubKeys("InvalidKeyLength")
       ELSE CASE symmetricCipherVersion = UnusedReservedUnauthenticated -> SubKeys(key, Null)
              [] symmetricCipherVersion = AesCbcThenHmac -> HashedSubKeysTs(key, keyLength)
              [] OTHER ->
                   LET infoWithCipherVersion ==
                           AEAD_KEY_DERIVATION_INFO_AsUint8Array \o asBytes(symmetricCipherVersion)
                       outputKeyLength == 2 * getKeyLengthAsBytes(Aes256)
                       derivedKeys == hkdf(Null, key, infoWithCipherVersion, outputKeyLength)
                   IN SubKeys(copyOfRange(derivedKeys, 0, getKeyLengthAsBytes(Aes256)),
                              copyOfRange(derivedKeys, getKeyLengthAsBytes(Aes256), outputKeyLength))

\* SymmetricKeyDeriver.deriveSubKeys, TypeScript
deriveSubKeys(key, symmetricCipherVersion) ==
    LET keyLength == getAndVerifyAesKeyLength(uint8ArrayToBitArray(key), ACCEPTED_BIT_LENGTHS)
    IN IF keyLength = 0 THEN NoSubKeys("InvalidKeyLength")
       ELSE CASE symmetricCipherVersion = UnusedReservedUnauthenticated ->
                   IF keyLength # Aes128 THEN NoSubKeys("IncompatibleKeyVersion")
                   ELSE SubKeys(key, Null)
              [] symmetricCipherVersion = AesCbcThenHmac ->
                   HashedSubKeysTs(key, keyLength)
              [] symmetricCipherVersion = Aead ->
                   LET infoWithCipherVersion ==
                           AEAD_KEY_DERIVATION_INFO_AsUint8Array \o asBytes(symmetricCipherVersion)
                       outputKeyLength == 2 * getKeyLengthAsBytes(Aes256)
                       derivedKeys == hkdf(Null, key, infoWithCipherVersion, outputKeyLength)
                   IN SubKeys(copyOfRange(derivedKeys, 0, getKeyLengthAsBytes(Aes256)),
                              copyOfRange(derivedKeys, getKeyLengthAsBytes(Aes256), outputKeyLength))
              [] OTHER -> NoSubKeys("UnexpectedCipherVersion")

\* Variant of the Java hash split that hashes every key with SHA-512 (C26
\* depends on SHA-256 being used for a 128-bit key)
HashedSubKeysJava_Sha512Only(key, keyLength) ==
    LET hash == sha512Hash(key)
        n == getKeyLengthAsBytes(keyLength)
    IN SubKeys(copyOfRange(hash, 0, n), copyOfRange(hash, n, 2 * n))

\* The hash split of AesCbcThenHmac, Java
HashedSubKeysJava(key, keyLength) ==
    LET hash == IF keyLength = Aes128 THEN sha256Hash(key) ELSE sha512Hash(key)
        n == getKeyLengthAsBytes(keyLength)
    IN SubKeys(copyOfRange(hash, 0, n), copyOfRange(hash, n, 2 * n))

\* SymmetricKeyDeriver.deriveSubKeys, Java
deriveSubKeysJava(key, symmetricCipherVersion) ==
    LET keyLength == AesKeyLength_get(key)
    IN IF keyLength = 0 THEN NoSubKeys("InvalidKeyLength")
       ELSE CASE symmetricCipherVersion = UnusedReservedUnauthenticated ->
                   IF keyLength # Aes128 THEN NoSubKeys("IncompatibleKeyVersion")
                   ELSE SubKeys(key, Null)
              [] symmetricCipherVersion = AesCbcThenHmac ->
                   HashedSubKeysJava(key, keyLength)
              [] symmetricCipherVersion = Aead ->
                   LET infoWithCipherVersion ==
                           AEAD_KEY_DERIVATION_INFO \o asBytes(symmetricCipherVersion)
                       outputKeyLength == 2 * AES256_KEY_LENGTH_BYTES
                       derivedKeys == hkdf(Null, key, infoWithCipherVersion, outputKeyLength)
                   IN SubKeys(copyOfRange(derivedKeys, 0, AES256_KEY_LENGTH_BYTES),
                              copyOfRange(derivedKeys, AES256_KEY_LENGTH_BYTES, outputKeyLength))

\* ------------------------------------------------------------------ HMAC
\* verifyHmacSha256(key, data, tag): recomputes the tag and compares
verifyHmacSha256(key, data, tag) == hmacSha256(key, data) = tag

\* TypedArray.subarray(begin, end): negative indices count from the end, and
\* both are clamped to the array
ClampIndex(a, i) == IF i < 0 THEN (IF Len(a) + i < 0 THEN 0 ELSE Len(a) + i)
                    ELSE (IF i > Len(a) THEN Len(a) ELSE i)
subarray(a, begin, end) == SubSeq(a, ClampIndex(a, begin) + 1, ClampIndex(a, end))

\* ----------------------------------------------------- AesCbcFacade (TS)
\* Variant of AesCbcFacade.encrypt whose tag covers the version byte as well
\* (C17 depends on the tag's input)
AesCbcFacade_encrypt_TagCoversVersion(key, plainText, hasRandomIvToPrepend, iv, padding, cipherVersion) ==
    LET subKeys == deriveSubKeys(key, cipherVersion)
    IN IF ~subKeys.ok THEN Throw(subKeys.err, <<"deriveSubKeys">>)
       ELSE LET cbc == CbcEncrypt(subKeys.encryptionKey, iv, plainText, padding)
            IN IF ~cbc.ok THEN Throw(cbc.err, <<"deriveSubKeys", "cbc.encrypt">>)
               ELSE LET cipherText == cbc.val
                        unauthenticatedCiphertext ==
                            IF hasRandomIvToPrepend THEN iv \o cipherText ELSE cipherText
                    IN CASE cipherVersion = UnusedReservedUnauthenticated ->
                              Ok(unauthenticatedCiphertext, <<"deriveSubKeys", "cbc.encrypt">>)
                         [] cipherVersion = AesCbcThenHmac ->
                              LET authenticationTag ==
                                      hmacSha256(subKeys.authenticationKey,
                                                 asBytes(AesCbcThenHmac)
                                                     \o unauthenticatedCiphertext)
                              IN Ok(asBytes(AesCbcThenHmac) \o unauthenticatedCiphertext
                                        \o authenticationTag,
                                    <<"deriveSubKeys", "cbc.encrypt", "hmacSha256">>)
                         [] OTHER ->
                              Throw("UnexpectedCipherVersion", <<"deriveSubKeys", "cbc.encrypt">>)

\* AesCbcFacade.encrypt, TypeScript
AesCbcFacade_encrypt(key, plainText, hasRandomIvToPrepend, iv, padding, cipherVersion) ==
    LET subKeys == deriveSubKeys(key, cipherVersion)
    IN IF ~subKeys.ok THEN Throw(subKeys.err, <<"deriveSubKeys">>)
       ELSE LET cbc == CbcEncrypt(subKeys.encryptionKey, iv, plainText, padding)
            IN IF ~cbc.ok THEN Throw(cbc.err, <<"deriveSubKeys", "cbc.encrypt">>)
               ELSE LET cipherText == cbc.val
                        unauthenticatedCiphertext ==
                            IF hasRandomIvToPrepend THEN iv \o cipherText ELSE cipherText
                    IN CASE cipherVersion = UnusedReservedUnauthenticated ->
                              Ok(unauthenticatedCiphertext, <<"deriveSubKeys", "cbc.encrypt">>)
                         [] cipherVersion = AesCbcThenHmac ->
                              LET authenticationTag ==
                                      hmacSha256(subKeys.authenticationKey, unauthenticatedCiphertext)
                              IN Ok(asBytes(AesCbcThenHmac) \o unauthenticatedCiphertext
                                        \o authenticationTag,
                                    <<"deriveSubKeys", "cbc.encrypt", "hmacSha256">>)
                         [] OTHER ->
                              Throw("UnexpectedCipherVersion", <<"deriveSubKeys", "cbc.encrypt">>)

\* Variant of the CBC step that reads the IV but leaves it in front of the body
\* (C1 depends on the IV being split off)
AesCbcFacade_decryptBody_KeepsIv(subKeys, cipherTextWithoutMacAndVersionByte, randomIv, padding, calls) ==
    LET iv == IF randomIv THEN subarray(cipherTextWithoutMacAndVersionByte, 0, IV_BYTE_LENGTH)
              ELSE FIXED_IV
        cbc == CbcDecrypt(subKeys.encryptionKey, iv, cipherTextWithoutMacAndVersionByte, padding)
    IN IF cbc.ok THEN Ok(cbc.val, calls \o <<"cbc.decrypt">>)
       ELSE Throw("DecryptionFailed", calls \o <<"cbc.decrypt">>)

\* Variant of the end of AesCbcFacade.decrypt that swallows the error of the
\* block cipher and returns nothing (C27 depends on the error being raised)
AesCbcFacade_decryptBody_SwallowsError(subKeys, cipherTextWithoutMacAndVersionByte, randomIv, padding, calls) ==
    LET iv == IF randomIv THEN subarray(cipherTextWithoutMacAndVersionByte, 0, IV_BYTE_LENGTH)
              ELSE FIXED_IV
        aesCbcCiphertext ==
            IF randomIv THEN subarray(cipherTextWithoutMacAndVersionByte, IV_BYTE_LENGTH,
                                      Len(cipherTextWithoutMacAndVersionByte))
            ELSE cipherTextWithoutMacAndVersionByte
        cbc == CbcDecrypt(subKeys.encryptionKey, iv, aesCbcCiphertext, padding)
    IN Ok(cbc.val, calls \o <<"cbc.decrypt">>)

\* The CBC step of AesCbcFacade.decrypt, TypeScript: the IV is split off or
\* fixed, and every failure of the cipher becomes CryptoError("aes decryption failed")
AesCbcFacade_decryptBody(subKeys, cipherTextWithoutMacAndVersionByte, randomIv, padding, calls) ==
    LET iv == IF randomIv THEN subarray(cipherTextWithoutMacAndVersionByte, 0, IV_BYTE_LENGTH)
              ELSE FIXED_IV
        aesCbcCiphertext ==
            IF randomIv THEN subarray(cipherTextWithoutMacAndVersionByte, IV_BYTE_LENGTH,
                                      Len(cipherTextWithoutMacAndVersionByte))
            ELSE cipherTextWithoutMacAndVersionByte
        cbc == CbcDecrypt(subKeys.encryptionKey, iv, aesCbcCiphertext, padding)
    IN IF cbc.ok THEN Ok(cbc.val, calls \o <<"cbc.decrypt">>)
       ELSE Throw("DecryptionFailed", calls \o <<"cbc.decrypt">>)

\* Variant of AesCbcFacade.decrypt that strips the tag without verifying it
\* (C2 depends on the verification)
AesCbcFacade_decrypt_NoVerify(key, cipherText, randomIv, padding, cipherVersion) ==
    LET subKeys == deriveSubKeys(key, cipherVersion)
    IN IF ~subKeys.ok THEN Throw(subKeys.err, <<"deriveSubKeys">>)
       ELSE IF cipherVersion = UnusedReservedUnauthenticated
       THEN AesCbcFacade_decryptBody(subKeys, cipherText, randomIv, padding, <<"deriveSubKeys">>)
       ELSE AesCbcFacade_decryptBody(
                subKeys,
                subarray(cipherText, SYMMETRIC_CIPHER_VERSION_PREFIX_LENGTH_BYTES,
                         Len(cipherText) - SYMMETRIC_AUTHENTICATION_TAG_LENGTH_BYTES),
                randomIv, padding, <<"deriveSubKeys">>)

\* Variant of AesCbcFacade.decrypt that skips a leading byte of an
\* UnusedReservedUnauthenticated input as if it were a version byte (C19
\* depends on the whole input being the body)
AesCbcFacade_decrypt_TrimsUnused(key, cipherText, randomIv, padding, cipherVersion) ==
    LET subKeys == deriveSubKeys(key, cipherVersion)
    IN IF ~subKeys.ok THEN Throw(subKeys.err, <<"deriveSubKeys">>)
       ELSE CASE cipherVersion = UnusedReservedUnauthenticated ->
                   AesCbcFacade_decryptBody(subKeys,
                                            subarray(cipherText,
                                                     SYMMETRIC_CIPHER_VERSION_PREFIX_LENGTH_BYTES,
                                                     Len(cipherText)),
                                            randomIv, padding, <<"deriveSubKeys">>)
              [] cipherVersion = AesCbcThenHmac ->
                   LET cipherTextWithoutMacAndVersionByte ==
                           subarray(cipherText, SYMMETRIC_CIPHER_VERSION_PREFIX_LENGTH_BYTES,
                                    Len(cipherText) - SYMMETRIC_AUTHENTICATION_TAG_LENGTH_BYTES)
                       providedMacBytes ==
                           subarray(cipherText,
                                    Len(cipherText) - SYMMETRIC_AUTHENTICATION_TAG_LENGTH_BYTES,
                                    Len(cipherText))
                   IN IF ~verifyHmacSha256(subKeys.authenticationKey,
                                           cipherTextWithoutMacAndVersionByte, providedMacBytes)
                      THEN Throw("AuthenticationFailed", <<"deriveSubKeys", "verifyHmacSha256">>)
                      ELSE AesCbcFacade_decryptBody(subKeys, cipherTextWithoutMacAndVersionByte,
                                                    randomIv, padding,
                                                    <<"deriveSubKeys", "verifyHmacSha256">>)
              [] OTHER -> Throw("UnexpectedCipherVersion", <<"deriveSubKeys">>)

\* AesCbcFacade.decrypt, TypeScript
AesCbcFacade_decrypt(key, cipherText, randomIv, padding, cipherVersion) ==
    LET subKeys == deriveSubKeys(key, cipherVersion)
    IN IF ~subKeys.ok THEN Throw(subKeys.err, <<"deriveSubKeys">>)
       ELSE CASE cipherVersion = UnusedReservedUnauthenticated ->
                   AesCbcFacade_decryptBody(subKeys, cipherText, randomIv, padding,
                                            <<"deriveSubKeys">>)
              [] cipherVersion = AesCbcThenHmac ->
                   LET cipherTextWithoutMacAndVersionByte ==
                           subarray(cipherText, SYMMETRIC_CIPHER_VERSION_PREFIX_LENGTH_BYTES,
                                    Len(cipherText) - SYMMETRIC_AUTHENTICATION_TAG_LENGTH_BYTES)
                       providedMacBytes ==
                           subarray(cipherText,
                                    Len(cipherText) - SYMMETRIC_AUTHENTICATION_TAG_LENGTH_BYTES,
                                    Len(cipherText))
                   IN IF ~verifyHmacSha256(subKeys.authenticationKey,
                                           cipherTextWithoutMacAndVersionByte, providedMacBytes)
                      THEN Throw("AuthenticationFailed", <<"deriveSubKeys", "verifyHmacSha256">>)
                      ELSE AesCbcFacade_decryptBody(subKeys, cipherTextWithoutMacAndVersionByte,
                                                    randomIv, padding,
                                                    <<"deriveSubKeys", "verifyHmacSha256">>)
              [] OTHER -> Throw("UnexpectedCipherVersion", <<"deriveSubKeys">>)

\* --------------------------------------------------- AesCbcFacade (Java)
\* Arrays.copyOfRange(a, from, to): throws for from > to or from outside the
\* array, and pads with zeros when to is beyond the array
JavaRangeOk(a, from, to) == from >= 0 /\ from <= Len(a) /\ from <= to
javaCopyOfRange(a, from, to) ==
    [i \in 1..(to - from) |-> IF from + i <= Len(a) THEN a[from + i] ELSE 0]

\* Variant of AesCbcFacade.encrypt that leaves the version byte out of an
\* AesCbcThenHmac envelope (C11 depends on the byte being written)
JavaAesCbcFacade_encrypt_NoVersionByte(key, plainText, hasRandomIvToPrepend, iv, padding, cipherVersion) ==
    LET subKeys == deriveSubKeysJava(key, cipherVersion)
    IN IF ~subKeys.ok THEN Throw(subKeys.err, <<"deriveSubKeys">>)
       ELSE LET cbc == CbcEncrypt(subKeys.encryptionKey, iv, plainText, padding)
            IN IF ~cbc.ok THEN Throw(cbc.err, <<"deriveSubKeys", "cbc.encrypt">>)
               ELSE LET unauthenticatedCiphertext ==
                            IF hasRandomIvToPrepend THEN iv \o cbc.val ELSE cbc.val
                    IN IF cipherVersion = UnusedReservedUnauthenticated
                       THEN Ok(unauthenticatedCiphertext, <<"deriveSubKeys", "cbc.encrypt">>)
                       ELSE Ok(unauthenticatedCiphertext
                                   \o hmacSha256(subKeys.authenticationKey,
                                                 unauthenticatedCiphertext),
                               <<"deriveSubKeys", "cbc.encrypt", "hmacSha256">>)

\* Variant of the Java AesCbcFacade.encrypt that writes the IV behind the body
\* (C30 depends on both implementations writing the same layout)
JavaAesCbcFacade_encrypt_IvAppended(key, plainText, hasRandomIvToPrepend, iv, padding, cipherVersion) ==
    LET subKeys == deriveSubKeysJava(key, cipherVersion)
    IN IF ~subKeys.ok THEN Throw(subKeys.err, <<"deriveSubKeys">>)
       ELSE LET cbc == CbcEncrypt(subKeys.encryptionKey, iv, plainText, padding)
            IN IF ~cbc.ok THEN Throw(cbc.err, <<"deriveSubKeys", "cbc.encrypt">>)
               ELSE LET cipherText == cbc.val
                        unauthenticatedCiphertext ==
                            IF hasRandomIvToPrepend THEN cipherText \o iv ELSE cipherText
                    IN CASE cipherVersion = UnusedReservedUnauthenticated ->
                              Ok(unauthenticatedCiphertext, <<"deriveSubKeys", "cbc.encrypt">>)
                         [] cipherVersion = AesCbcThenHmac ->
                              LET authenticationTag ==
                                      hmacSha256(subKeys.authenticationKey, unauthenticatedCiphertext)
                              IN Ok(asBytes(AesCbcThenHmac) \o unauthenticatedCiphertext
                                        \o authenticationTag,
                                    <<"deriveSubKeys", "cbc.encrypt", "hmacSha256">>)
                         [] OTHER ->
                              Throw("UnexpectedCipherVersion", <<"deriveSubKeys", "cbc.encrypt">>)

\* AesCbcFacade.encrypt, Java
JavaAesCbcFacade_encrypt(key, plainText, hasRandomIvToPrepend, iv, padding, cipherVersion) ==
    LET subKeys == deriveSubKeysJava(key, cipherVersion)
    IN IF ~subKeys.ok THEN Throw(subKeys.err, <<"deriveSubKeys">>)
       ELSE LET cbc == CbcEncrypt(subKeys.encryptionKey, iv, plainText, padding)
            IN IF ~cbc.ok THEN Throw(cbc.err, <<"deriveSubKeys", "cbc.encrypt">>)
               ELSE LET cipherText == cbc.val
                        unauthenticatedCiphertext ==
                            IF hasRandomIvToPrepend THEN iv \o cipherText ELSE cipherText
                    IN CASE cipherVersion = UnusedReservedUnauthenticated ->
                              Ok(unauthenticatedCiphertext, <<"deriveSubKeys", "cbc.encrypt">>)
                         [] cipherVersion = AesCbcThenHmac ->
                              LET authenticationTag ==
                                      hmacSha256(subKeys.authenticationKey, unauthenticatedCiphertext)
                              IN Ok(asBytes(AesCbcThenHmac) \o unauthenticatedCiphertext
                                        \o authenticationTag,
                                    <<"deriveSubKeys", "cbc.encrypt", "hmacSha256">>)
                         [] OTHER ->
                              Throw("UnexpectedCipherVersion", <<"deriveSubKeys", "cbc.encrypt">>)

\* The CBC step of AesCbcFacade.decrypt, Java
JavaAesCbcFacade_decryptBody(subKeys, cipherTextWithoutMacAndVersionByte, randomIv, padding, calls) ==
    IF randomIv /\ ~JavaRangeOk(cipherTextWithoutMacAndVersionByte, IV_BYTE_LENGTH,
                                Len(cipherTextWithoutMacAndVersionByte))
    THEN Throw("IndexOutOfBounds", calls)
    ELSE LET iv == IF randomIv
                   THEN javaCopyOfRange(cipherTextWithoutMacAndVersionByte, 0, IV_BYTE_LENGTH)
                   ELSE FIXED_IV
             aesCbcCiphertext ==
                 IF randomIv
                 THEN javaCopyOfRange(cipherTextWithoutMacAndVersionByte, IV_BYTE_LENGTH,
                                      Len(cipherTextWithoutMacAndVersionByte))
                 ELSE cipherTextWithoutMacAndVersionByte
             cbc == CbcDecrypt(subKeys.encryptionKey, iv, aesCbcCiphertext, padding)
         IN IF cbc.ok THEN Ok(cbc.val, calls \o <<"cbc.decrypt">>)
            ELSE Throw("DecryptionFailed", calls \o <<"cbc.decrypt">>)

\* Variant of AesCbcFacade.decrypt that runs the block cipher first and
\* verifies the tag afterwards (C3 depends on the order)
JavaAesCbcFacade_decrypt_DecryptFirst(key, cipherText, randomIv, padding, cipherVersion) ==
    LET subKeys == deriveSubKeysJava(key, cipherVersion)
        macStart == Len(cipherText) - SYMMETRIC_AUTHENTICATION_TAG_LENGTH_BYTES
    IN IF ~subKeys.ok THEN Throw(subKeys.err, <<"deriveSubKeys">>)
       ELSE IF cipherVersion = UnusedReservedUnauthenticated
       THEN JavaAesCbcFacade_decryptBody(subKeys, cipherText, randomIv, padding,
                                         <<"deriveSubKeys">>)
       ELSE IF ~JavaRangeOk(cipherText, SYMMETRIC_CIPHER_VERSION_PREFIX_LENGTH_BYTES, macStart)
       THEN Throw("IndexOutOfBounds", <<"deriveSubKeys">>)
       ELSE LET cipherTextWithoutMacAndVersionByte ==
                    javaCopyOfRange(cipherText, SYMMETRIC_CIPHER_VERSION_PREFIX_LENGTH_BYTES,
                                    macStart)
                providedMacBytes == javaCopyOfRange(cipherText, macStart, Len(cipherText))
                body == JavaAesCbcFacade_decryptBody(subKeys, cipherTextWithoutMacAndVersionByte,
                                                     randomIv, padding, <<"deriveSubKeys">>)
            IN IF ~verifyHmacSha256(subKeys.authenticationKey,
                                    cipherTextWithoutMacAndVersionByte, providedMacBytes)
               THEN Throw("AuthenticationFailed", body.calls \o <<"verifyHmacSha256">>)
               ELSE [body EXCEPT !.calls = @ \o <<"verifyHmacSha256">>]

\* AesCbcFacade.decrypt, Java
JavaAesCbcFacade_decrypt(key, cipherText, randomIv, padding, cipherVersion) ==
    LET subKeys == deriveSubKeysJava(key, cipherVersion)
        macStart == Len(cipherText) - SYMMETRIC_AUTHENTICATION_TAG_LENGTH_BYTES
    IN IF ~subKeys.ok THEN Throw(subKeys.err, <<"deriveSubKeys">>)
       ELSE CASE cipherVersion = UnusedReservedUnauthenticated ->
                   JavaAesCbcFacade_decryptBody(subKeys, cipherText, randomIv, padding,
                                                <<"deriveSubKeys">>)
              [] cipherVersion = AesCbcThenHmac ->
                   IF ~JavaRangeOk(cipherText, SYMMETRIC_CIPHER_VERSION_PREFIX_LENGTH_BYTES, macStart)
                   THEN Throw("IndexOutOfBounds", <<"deriveSubKeys">>)
                   ELSE LET cipherTextWithoutMacAndVersionByte ==
                                javaCopyOfRange(cipherText,
                                                SYMMETRIC_CIPHER_VERSION_PREFIX_LENGTH_BYTES, macStart)
                            providedMacBytes ==
                                javaCopyOfRange(cipherText, macStart, Len(cipherText))
                        IN IF ~verifyHmacSha256(subKeys.authenticationKey,
                                                cipherTextWithoutMacAndVersionByte, providedMacBytes)
                           THEN Throw("AuthenticationFailed",
                                      <<"deriveSubKeys", "verifyHmacSha256">>)
                           ELSE JavaAesCbcFacade_decryptBody(
                                    subKeys, cipherTextWithoutMacAndVersionByte, randomIv, padding,
                                    <<"deriveSubKeys", "verifyHmacSha256">>)
              [] OTHER -> Throw("UnexpectedCipherVersion", <<"deriveSubKeys">>)

\* ------------------------------------------------------ AeadFacade (Java)
\* Variant of AeadFacade.encrypt that sends the associated data along, between
\* the CBC output and the tag (C18 depends on the envelope's parts)
AeadFacade_encrypt_SendsAd(key, plainText, iv, padding, associatedData) ==
    LET subKeys == deriveSubKeysJava(key, Aead)
    IN IF ~subKeys.ok THEN Throw(subKeys.err, <<"deriveSubKeys">>)
       ELSE LET cbc == CbcEncrypt(subKeys.encryptionKey, iv, plainText, padding)
            IN IF ~cbc.ok THEN Throw(cbc.err, <<"deriveSubKeys", "cbc.encrypt">>)
               ELSE LET aesCbcCiphertext == cbc.val
                        unauthenticatedData == asBytes(Aead) \o iv \o aesCbcCiphertext
                        tag == hmacSha256(subKeys.authenticationKey,
                                          unauthenticatedData \o associatedData)
                    IN Ok(unauthenticatedData \o associatedData \o tag,
                          <<"deriveSubKeys", "cbc.encrypt", "hmacSha256">>)

\* AeadFacade.encrypt
AeadFacade_encrypt(key, plainText, iv, padding, associatedData) ==
    LET subKeys == deriveSubKeysJava(key, Aead)
    IN IF ~subKeys.ok THEN Throw(subKeys.err, <<"deriveSubKeys">>)
       ELSE LET cbc == CbcEncrypt(subKeys.encryptionKey, iv, plainText, padding)
            IN IF ~cbc.ok THEN Throw(cbc.err, <<"deriveSubKeys", "cbc.encrypt">>)
               ELSE LET aesCbcCiphertext == cbc.val
                        unauthenticatedData == asBytes(Aead) \o iv \o aesCbcCiphertext
                        tag == hmacSha256(subKeys.authenticationKey,
                                          unauthenticatedData \o associatedData)
                    IN Ok(unauthenticatedData \o tag,
                          <<"deriveSubKeys", "cbc.encrypt", "hmacSha256">>)

\* Variant of AeadFacade.decrypt whose verification leaves the associated data
\* out (C6 depends on the associated data being under the tag)
AeadFacade_decrypt_IgnoresAd(key, cipherText, padding, associatedData) ==
    LET subKeys == deriveSubKeysJava(key, Aead)
        macStart == Len(cipherText) - SYMMETRIC_AUTHENTICATION_TAG_LENGTH_BYTES
        ivEnd == SYMMETRIC_CIPHER_VERSION_PREFIX_LENGTH_BYTES + IV_BYTE_LENGTH
    IN IF ~subKeys.ok THEN Throw(subKeys.err, <<"deriveSubKeys">>)
       ELSE IF ~JavaRangeOk(cipherText, 0, macStart) \/ macStart < ivEnd
       THEN Throw("IndexOutOfBounds", <<"deriveSubKeys">>)
       ELSE LET cipherTextWithoutMac == javaCopyOfRange(cipherText, 0, macStart)
                authenticationTag == javaCopyOfRange(cipherText, macStart, Len(cipherText))
            IN IF ~verifyHmacSha256(subKeys.authenticationKey, cipherTextWithoutMac,
                                    authenticationTag)
               THEN Throw("AuthenticationFailed", <<"deriveSubKeys", "verifyHmacSha256">>)
               ELSE LET cbc == CbcDecrypt(subKeys.encryptionKey,
                                          javaCopyOfRange(cipherTextWithoutMac,
                                              SYMMETRIC_CIPHER_VERSION_PREFIX_LENGTH_BYTES, ivEnd),
                                          javaCopyOfRange(cipherTextWithoutMac, ivEnd,
                                                          Len(cipherTextWithoutMac)),
                                          padding)
                    IN IF cbc.ok
                       THEN Ok(cbc.val, <<"deriveSubKeys", "verifyHmacSha256", "cbc.decrypt">>)
                       ELSE Throw("DecryptionFailed",
                                  <<"deriveSubKeys", "verifyHmacSha256", "cbc.decrypt">>)

\* AeadFacade.decrypt
AeadFacade_decrypt(key, cipherText, padding, associatedData) ==
    LET subKeys == deriveSubKeysJava(key, Aead)
        macStart == Len(cipherText) - SYMMETRIC_AUTHENTICATION_TAG_LENGTH_BYTES
        ivEnd == SYMMETRIC_CIPHER_VERSION_PREFIX_LENGTH_BYTES + IV_BYTE_LENGTH
    IN IF ~subKeys.ok THEN Throw(subKeys.err, <<"deriveSubKeys">>)
       ELSE IF ~JavaRangeOk(cipherText, 0, macStart)
       THEN Throw("IndexOutOfBounds", <<"deriveSubKeys">>)
       ELSE LET cipherTextWithoutMac == javaCopyOfRange(cipherText, 0, macStart)
                authenticationTag == javaCopyOfRange(cipherText, macStart, Len(cipherText))
            IN IF ~verifyHmacSha256(subKeys.authenticationKey,
                                    cipherTextWithoutMac \o associatedData, authenticationTag)
               THEN Throw("AuthenticationFailed", <<"deriveSubKeys", "verifyHmacSha256">>)
               ELSE IF ~JavaRangeOk(cipherTextWithoutMac,
                                    SYMMETRIC_CIPHER_VERSION_PREFIX_LENGTH_BYTES, ivEnd)
                       \/ ~JavaRangeOk(cipherTextWithoutMac, ivEnd, Len(cipherTextWithoutMac))
               THEN Throw("IndexOutOfBounds", <<"deriveSubKeys", "verifyHmacSha256">>)
               ELSE LET iv == javaCopyOfRange(cipherTextWithoutMac,
                                              SYMMETRIC_CIPHER_VERSION_PREFIX_LENGTH_BYTES, ivEnd)
                        aesCbcCiphertext ==
                            javaCopyOfRange(cipherTextWithoutMac, ivEnd, Len(cipherTextWithoutMac))
                        cbc == CbcDecrypt(subKeys.encryptionKey, iv, aesCbcCiphertext, padding)
                    IN IF cbc.ok
                       THEN Ok(cbc.val, <<"deriveSubKeys", "verifyHmacSha256", "cbc.decrypt">>)
                       ELSE Throw("DecryptionFailed",
                                  <<"deriveSubKeys", "verifyHmacSha256", "cbc.decrypt">>)

\* ------------------------------------------- SymmetricCipherFacade (Java)
\* What a facade call did: its result and the parameters it handed to the codec
Dispatch(out, hasRandomIv, iv, padding, cipherVersion) ==
    [out |-> out, hasRandomIv |-> hasRandomIv, iv |-> iv, padding |-> padding,
     cipherVersion |-> cipherVersion]

\* Variant of the private encrypt that takes the IV from the random source
\* whatever hasRandomIv says (C14 depends on the fixed IV)
encrypt_RandomIvAlways(key, plainText, hasRandomIv, padding, cipherVersion, random, assertionsEnabled) ==
    LET iv == random
    IN CASE cipherVersion \in {UnusedReservedUnauthenticated, AesCbcThenHmac} ->
              LET r == JavaAesCbcFacade_encrypt(key, plainText, hasRandomIv, iv, padding,
                                                cipherVersion)
              IN Dispatch([r EXCEPT !.calls = <<"aesCbcFacade.encrypt">> \o @],
                          hasRandomIv, iv, padding, cipherVersion)
         [] cipherVersion = Aead ->
              IF assertionsEnabled /\ ~hasRandomIv
              THEN Dispatch(Throw("AssertionError", <<>>), hasRandomIv, iv, padding, cipherVersion)
              ELSE Dispatch(Throw("NotEnabled", <<>>), hasRandomIv, iv, padding, cipherVersion)

\* private encrypt(key, plainText, hasRandomIv, padding, cipherVersion);
\* random is what secureRandom.nextBytes delivers, assertionsEnabled whether
\* the JVM runs with -ea
encrypt(key, plainText, hasRandomIv, padding, cipherVersion, random, assertionsEnabled) ==
    LET iv == IF hasRandomIv THEN random ELSE FIXED_IV
    IN CASE cipherVersion \in {UnusedReservedUnauthenticated, AesCbcThenHmac} ->
              LET r == JavaAesCbcFacade_encrypt(key, plainText, hasRandomIv, iv, padding,
                                                cipherVersion)
              IN Dispatch([r EXCEPT !.calls = <<"aesCbcFacade.encrypt">> \o @],
                          hasRandomIv, iv, padding, cipherVersion)
         [] cipherVersion = Aead ->
              IF assertionsEnabled /\ ~hasRandomIv
              THEN Dispatch(Throw("AssertionError", <<>>), hasRandomIv, iv, padding, cipherVersion)
              ELSE Dispatch(Throw("NotEnabled", <<>>), hasRandomIv, iv, padding, cipherVersion)

\* private encrypt(key, plainText, padding, cipherVersion)
encrypt4(key, plainText, padding, cipherVersion, random, assertionsEnabled) ==
    encrypt(key, plainText, TRUE, padding, cipherVersion, random, assertionsEnabled)

\* Variant of getCipherVersion that does not look at the key (C4 depends on
\* the key-length check)
getCipherVersion_AnyKey(cipherText, key) == getFromCiphertext(cipherText)

\* getCipherVersion(cipherText, key): "" where it throws "mac is enforced but not present"
getCipherVersion(cipherText, key) ==
    LET cipherVersion == getFromCiphertext(cipherText)
    IN IF cipherVersion = UnusedReservedUnauthenticated /\ AesKeyLength_get(key) # Aes128
       THEN ""
       ELSE cipherVersion

\* Variant of decrypt whose Aead branch hands the envelope to AeadFacade
\* (C10 depends on the branch being closed)
decrypt_AeadEnabled(key, cipherText, randomIv, padding) ==
    LET cipherVersion == getFromCiphertext(cipherText)
    IN IF cipherVersion = Aead
       THEN LET r == AeadFacade_decrypt(key, cipherText, padding, <<>>)
            IN Dispatch([r EXCEPT !.calls = <<"aeadFacade.decrypt">> \o @],
                        randomIv, <<>>, padding, cipherVersion)
       ELSE IF cipherVersion = UnusedReservedUnauthenticated /\ AesKeyLength_get(key) # Aes128
       THEN Dispatch(Throw("AuthenticationRequired", <<>>), randomIv, <<>>, padding, "")
       ELSE LET r == JavaAesCbcFacade_decrypt(key, cipherText, randomIv, padding, cipherVersion)
            IN Dispatch([r EXCEPT !.calls = <<"aesCbcFacade.decrypt">> \o @],
                        randomIv, <<>>, padding, cipherVersion)

\* private decrypt(key, cipherText, randomIv, padding)
decrypt(key, cipherText, randomIv, padding) ==
    LET cipherVersion == getCipherVersion(cipherText, key)
    IN CASE cipherVersion = "" ->
              Dispatch(Throw("AuthenticationRequired", <<>>), randomIv, <<>>, padding, cipherVersion)
         [] cipherVersion \in {UnusedReservedUnauthenticated, AesCbcThenHmac} ->
              LET r == JavaAesCbcFacade_decrypt(key, cipherText, randomIv, padding, cipherVersion)
              IN Dispatch([r EXCEPT !.calls = <<"aesCbcFacade.decrypt">> \o @],
                          randomIv, <<>>, padding, cipherVersion)
         [] cipherVersion = Aead ->
              Dispatch(Throw("NotEnabled", <<>>), randomIv, <<>>, padding, cipherVersion)

\* private decrypt(key, cipherText, padding)
decrypt3(key, cipherText, padding) == decrypt(key, cipherText, TRUE, padding)

encryptBytes(key, bytes, random, assertionsEnabled) ==
    encrypt4(key, bytes, TRUE, AesCbcThenHmac, random, assertionsEnabled)

encryptBytesDeprecatedUnauthenticated(key, bytes, random, assertionsEnabled) ==
    encrypt4(key, bytes, TRUE, UnusedReservedUnauthenticated, random, assertionsEnabled)

decryptBytes(key, bytes) == decrypt3(key, bytes, TRUE)

\* String.getBytes(StandardCharsets.UTF_8) for a string given as its sequence
\* of code points below 0x800: one byte below 0x80, two bytes from there on
utf8GetBytes(utf8) ==
    LET RECURSIVE Enc(_)
        Enc(s) == IF s = <<>> THEN <<>>
                  ELSE (IF s[1] < 128 THEN <<s[1]>>
                        ELSE <<192 + (s[1] \div 64), 128 + (s[1] % 64)>>) \o Enc(Tail(s))
    IN Enc(utf8)

encryptUtf8(key, utf8, random, assertionsEnabled) ==
    encrypt4(key, utf8GetBytes(utf8), TRUE, AesCbcThenHmac, random, assertionsEnabled)

\* decryptUtf8: val is the byte array handed to new String(_, UTF_8), whose
\* decoding is logged as a call
decryptUtf8(key, encrypted) ==
    LET d == decrypt3(key, encrypted, TRUE)
    IN IF d.out.ok THEN [d EXCEPT !.out.calls = @ \o <<"new String">>] ELSE d

\* Variant of encryptPrivateRsaKey that encrypts without padding (C15 depends
\* on the padding flag of the four-argument encrypt)
encryptPrivateRsaKey_NoPadding(key, byteKey, random, assertionsEnabled) ==
    LET d == encrypt4(key, byteKey, FALSE, AesCbcThenHmac, random, assertionsEnabled)
    IN [d EXCEPT !.out.calls = <<"rsaFacade.privateKeyToBytes">> \o @]

\* encryptPrivateRsaKey: byteKey is what rsaFacade.privateKeyToBytes returns
\* for keyToEncrypt
encryptPrivateRsaKey(key, byteKey, random, assertionsEnabled) ==
    LET d == encrypt4(key, byteKey, TRUE, AesCbcThenHmac, random, assertionsEnabled)
    IN [d EXCEPT !.out.calls = <<"rsaFacade.privateKeyToBytes">> \o @]

\* decryptPrivateRsaKey: val is the byte array handed to
\* rsaFacade.bytesToPrivateKey
decryptPrivateRsaKey(key, bytes) ==
    LET d == decrypt3(key, bytes, TRUE)
    IN IF d.out.ok THEN [d EXCEPT !.out.calls = @ \o <<"rsaFacade.bytesToPrivateKey">>] ELSE d

\* Variant of encryptKey that wraps with FIXED_IV under both key lengths
\* (C8 depends on the overload chosen for 256-bit wrapping keys)
encryptKey_FixedIvAlways(key, keyToEncrypt, random, assertionsEnabled) ==
    encrypt(key, keyToEncrypt, FALSE, FALSE,
            IF AesKeyLength_get(key) = Aes128 THEN UnusedReservedUnauthenticated
            ELSE AesCbcThenHmac,
            random, assertionsEnabled)

\* Variant of encryptKey that selects the version from the key being wrapped
\* (C9 depends on the selection by the wrapping key)
encryptKey_ByWrappedKey(key, keyToEncrypt, random, assertionsEnabled) ==
    IF AesKeyLength_get(keyToEncrypt) = Aes128
    THEN encrypt(key, keyToEncrypt, FALSE, FALSE, UnusedReservedUnauthenticated,
                 random, assertionsEnabled)
    ELSE encrypt4(key, keyToEncrypt, FALSE, AesCbcThenHmac, random, assertionsEnabled)

\* encryptKey(key, keyToEncrypt)
encryptKey(key, keyToEncrypt, random, assertionsEnabled) ==
    CASE AesKeyLength_get(key) = Aes128 ->
           encrypt(key, keyToEncrypt, FALSE, FALSE, UnusedReservedUnauthenticated,
                   random, assertionsEnabled)
      [] AesKeyLength_get(key) = Aes256 ->
           encrypt4(key, keyToEncrypt, FALSE, AesCbcThenHmac, random, assertionsEnabled)
      [] OTHER -> Dispatch(Throw("InvalidKeyLength", <<>>), FALSE, <<>>, FALSE, "")

\* Variant of decryptKey that takes the first 16 bytes as the IV under both
\* key lengths (C12 depends on the overload chosen for 128-bit keys)
decryptKey_RandomIvAlways(key, bytes) ==
    IF AesKeyLength_get(key) = 0
    THEN Dispatch(Throw("InvalidKeyLength", <<>>), FALSE, <<>>, FALSE, "")
    ELSE decrypt3(key, bytes, FALSE)

\* decryptKey(key, encryptedKey)

decryptKey(key, bytes) ==
    CASE AesKeyLength_get(key) = Aes128 -> decrypt(key, bytes, FALSE, FALSE)
      [] AesKeyLength_get(key) = Aes256 -> decrypt3(key, bytes, FALSE)
      [] OTHER -> Dispatch(Throw("InvalidKeyLength", <<>>), FALSE, <<>>, FALSE, "")

\* ------------------------------------------------------- Aes.ts (legacy)
\* getAesSubKeys(key, mac): the hash split when a MAC is used, the key itself
\* and no MAC key otherwise
getAesSubKeys(key, mac) ==
    IF mac
    THEN LET h == HashedSubKeysTs(key, getAndVerifyAesKeyLength(uint8ArrayToBitArray(key), ACCEPTED_BIT_LENGTHS))
         IN [cKey |-> h.encryptionKey, mKey |-> h.authenticationKey]
    ELSE [cKey |-> key, mKey |-> Null]

\* Variant of aesEncrypt without the "Can't use AES-256 without MAC" check
\* (C5 depends on that guard)
aesEncrypt_NoMacCheck(key, bytes, iv, usePadding, useMac) ==
    LET keyLength == getAndVerifyAesKeyLength(uint8ArrayToBitArray(key), ACCEPTED_BIT_LENGTHS)
    IN IF keyLength = 0 THEN Throw("InvalidKeyLength", <<>>)
       ELSE IF Len(iv) # IV_BYTE_LENGTH THEN Throw("InvalidIvLength", <<>>)
       ELSE LET subKeys == getAesSubKeys(key, useMac)
                cbc == CbcEncrypt(subKeys.cKey, iv, bytes, usePadding)
            IN IF ~cbc.ok THEN Throw(cbc.err, <<"cbc.encrypt">>)
               ELSE LET data == iv \o cbc.val
                    IN IF useMac
                       THEN Ok(<<MAC_ENABLED_PREFIX>> \o data \o hmacSha256(subKeys.mKey, data),
                               <<"cbc.encrypt", "hmacSha256">>)
                       ELSE Ok(data, <<"cbc.encrypt">>)

\* Variant of aesEncrypt that looks at the MAC flag before the IV (C23
\* depends on the IV being checked as soon as the key length is known)
aesEncrypt_MacCheckFirst(key, bytes, iv, usePadding, useMac) ==
    LET keyLength == getAndVerifyAesKeyLength(uint8ArrayToBitArray(key), ACCEPTED_BIT_LENGTHS)
    IN IF keyLength = 0 THEN Throw("InvalidKeyLength", <<>>)
       ELSE IF ~useMac /\ keyLength = Aes256 THEN Throw("IncompatibleKeyVersion", <<>>)
       ELSE IF Len(iv) # IV_BYTE_LENGTH THEN Throw("InvalidIvLength", <<>>)
       ELSE LET subKeys == getAesSubKeys(key, useMac)
                cbc == CbcEncrypt(subKeys.cKey, iv, bytes, usePadding)
            IN IF ~cbc.ok THEN Throw(cbc.err, <<"cbc.encrypt">>)
               ELSE LET data == iv \o cbc.val
                    IN IF useMac
                       THEN Ok(<<MAC_ENABLED_PREFIX>> \o data \o hmacSha256(subKeys.mKey, data),
                               <<"cbc.encrypt", "hmacSha256">>)
                       ELSE Ok(data, <<"cbc.encrypt">>)

\* aesEncrypt(key, bytes, iv, usePadding, useMac)
aesEncrypt(key, bytes, iv, usePadding, useMac) ==
    LET keyLength == getAndVerifyAesKeyLength(uint8ArrayToBitArray(key), ACCEPTED_BIT_LENGTHS)
    IN IF keyLength = 0 THEN Throw("InvalidKeyLength", <<>>)
       ELSE IF Len(iv) # IV_BYTE_LENGTH THEN Throw("InvalidIvLength", <<>>)
       ELSE IF ~useMac /\ keyLength = Aes256 THEN Throw("IncompatibleKeyVersion", <<>>)
       ELSE LET subKeys == getAesSubKeys(key, useMac)
                cbc == CbcEncrypt(subKeys.cKey, iv, bytes, usePadding)
            IN IF ~cbc.ok THEN Throw(cbc.err, <<"cbc.encrypt">>)
               ELSE LET data == iv \o cbc.val
                    IN IF useMac
                       THEN Ok(<<MAC_ENABLED_PREFIX>> \o data \o hmacSha256(subKeys.mKey, data),
                               <<"cbc.encrypt", "hmacSha256">>)
                       ELSE Ok(data, <<"cbc.encrypt">>)

\* aes256EncryptSearchIndexEntry(key, bytes, iv, usePadding)
aes256EncryptSearchIndexEntry(key, bytes, iv, usePadding) ==
    IF getAndVerifyAesKeyLength(uint8ArrayToBitArray(key), {Aes256}) = 0 THEN Throw("InvalidKeyLength", <<>>)
    ELSE IF Len(iv) # IV_BYTE_LENGTH THEN Throw("InvalidIvLength", <<>>)
    ELSE LET subKeys == getAesSubKeys(key, FALSE)
             cbc == CbcEncrypt(subKeys.cKey, iv, bytes, usePadding)
         IN IF ~cbc.ok THEN Throw(cbc.err, <<"cbc.encrypt">>)
            ELSE Ok(iv \o cbc.val, <<"cbc.encrypt">>)

\* aesDecryptImpl(key, encryptedBytes, usePadding, enforceMac)
aesDecryptImpl(key, encryptedBytes, usePadding, enforceMac) ==
    LET hasMac == Len(encryptedBytes) % 2 = 1
    IN IF getAndVerifyAesKeyLength(uint8ArrayToBitArray(key), ACCEPTED_BIT_LENGTHS) = 0
       THEN Throw("InvalidKeyLength", <<>>)
       ELSE IF enforceMac /\ ~hasMac THEN Throw("AuthenticationRequired", <<>>)
       ELSE LET subKeys == getAesSubKeys(key, hasMac)
                cipherTextWithoutMac ==
                    IF hasMac
                    THEN subarray(encryptedBytes, 1, Len(encryptedBytes) - MAC_LENGTH_BYTES)
                    ELSE encryptedBytes
                providedMacBytes ==
                    subarray(encryptedBytes, Len(encryptedBytes) - MAC_LENGTH_BYTES,
                             Len(encryptedBytes))
                calls == IF hasMac THEN <<"verifyHmacSha256">> ELSE <<>>
            IN IF hasMac /\ ~verifyHmacSha256(subKeys.mKey, cipherTextWithoutMac, providedMacBytes)
               THEN Throw("AuthenticationFailed", calls)
               ELSE LET iv == subarray(cipherTextWithoutMac, 0, IV_BYTE_LENGTH)
                    IN IF Len(iv) # IV_BYTE_LENGTH THEN Throw("InvalidIvLength", calls)
                       ELSE LET ciphertext == subarray(cipherTextWithoutMac, IV_BYTE_LENGTH,
                                                       Len(cipherTextWithoutMac))
                                cbc == CbcDecrypt(subKeys.cKey, iv, ciphertext, usePadding)
                            IN IF cbc.ok THEN Ok(cbc.val, calls \o <<"cbc.decrypt">>)
                               ELSE Throw("DecryptionFailed", calls \o <<"cbc.decrypt">>)

\* authenticatedAesDecrypt(key, encryptedBytes, usePadding)
authenticatedAesDecrypt(key, encryptedBytes, usePadding) ==
    aesDecryptImpl(key, encryptedBytes, usePadding, TRUE)

\* ----------------------------------------------- extractIvFromCipherText
\* uint8ArrayToBase64 / base64ToUint8Array: the standard alphabet with '='
\* padding, no character outside the alphabet in what the encoder wrote
uint8ArrayToBase64(bytes) == sjcl_base64_fromBits(sjcl_arrayBuffer_toBits(bytes))
base64ToUint8Array(base64) == sjcl_arrayBuffer_fromBits(sjcl_base64_toBits(base64).val)

\* Variant of extractIvFromCipherText that takes every envelope for a legacy
\* one (C28 depends on the parity test)
extractIvFromCipherText_NoParity(encrypted) ==
    LET encryptedBytes == base64ToUint8Array(encrypted)
        cipherTextWithoutMac == encryptedBytes
    IN IF Len(cipherTextWithoutMac) < IV_BYTE_LENGTH THEN Throw("InsufficientBytes", <<>>)
       ELSE Ok(subarray(cipherTextWithoutMac, 0, IV_BYTE_LENGTH), <<>>)

\* extractIvFromCipherText(encrypted)
extractIvFromCipherText(encrypted) ==
    LET encryptedBytes == base64ToUint8Array(encrypted)
        hasMac == Len(encryptedBytes) % 2 = 1
        cipherTextWithoutMac ==
            IF hasMac THEN subarray(encryptedBytes, 1, Len(encryptedBytes) - MAC_LENGTH_BYTES)
            ELSE encryptedBytes
    IN IF Len(cipherTextWithoutMac) < IV_BYTE_LENGTH THEN Throw("InsufficientBytes", <<>>)
       ELSE Ok(subarray(cipherTextWithoutMac, 0, IV_BYTE_LENGTH), <<>>)

\* ================================================================ state
VARIABLES
    enc,        \* the encrypt call made, its parameters and its result
    cipherText, \* the envelope in flight
    tampered,   \* the bit an attacker inverted in the envelope, if any
    dec,        \* the decrypt call made on the envelope and its result
    sub,        \* the result of a direct deriveSubKeys call
    conv,       \* the key conversion made, its input and its result
    call,       \* the concurrent AesCbcFacade calls: position, arguments, locals, result
    fixedIv     \* the content of the shared array FIXED_IV

vars == <<enc, cipherText, tampered, dec, sub, conv, call, fixedIv>>

\* ------------------------------------------------------------- inputs
MaxPlainLen == 17
MaxAdLen == 1
MaxIvSeed == 1
MaxKeyBytes == 33
MaxIvLen == 17

Key128 == [i \in 1..16 |-> 16 + i]
Key256 == [i \in 1..32 |-> 64 + 2 * i]
Keys == {Key128, Key256}

\* a 128-bit key that is wrapped under Key128 and FIXED_IV into a ciphertext
\* whose first byte is 1
WrappedKey128 == [i \in 1..16 |-> 38 + i]
KeysToWrap == Keys \cup {WrappedKey128}

PlainText(n) == [i \in 1..n |-> (3 * i + n) % 256]
PlainTexts == {PlainText(n) : n \in {0, BLOCK_SIZE_BYTES, MaxPlainLen}}

\* Strings for encryptUtf8, as code points: the empty string and "a" followed
\* by U+00E9, which takes two bytes
Utf8Strings == {<<>>, <<97, 233>>}

\* What rsaFacade.privateKeyToBytes may return: a blob that is not a whole
\* number of blocks
PrivateKeyBlobs == {[i \in 1..(BLOCK_SIZE_BYTES + 3) |-> (11 * i) % 256]}

\* Byte arrays offered as keys: every length up to MaxKeyBytes, the lengths
\* of no AES key included, with low and with high byte values
KeyArray(n, s) == [i \in 1..n |-> (s + 7 * i) % 256]
KeyArrays == {KeyArray(n, s) : n \in 0..MaxKeyBytes, s \in {3, 200}}

\* The acceptedBitLengths a caller passes: the default and the two one-element
\* lists
AllowLists == {ACCEPTED_BIT_LENGTHS, {Aes128}, {Aes256}}

\* IVs a caller or the random source may supply: seed s gives 16 bytes whose
\* first is s
Iv(s) == [i \in 1..IV_BYTE_LENGTH |-> (s + 40 * (i - 1)) % 256]
IVs == {FIXED_IV} \cup {Iv(s) : s \in 1..MaxIvSeed}

AssociatedData(n) == [i \in 1..n |-> 7 * i]
ADs == {AssociatedData(n) : n \in 0..MaxAdLen} \cup {<<9>>}

Impls == {"ts", "java"}

\* The single-bit changes an attacker tries, as <<position, bit>>: in the first
\* byte (the version byte of a tagged envelope), in the following 16 bytes, in
\* the bytes after them, in the byte before the last 32 and in the last 32 (the
\* tag of a tagged envelope)
Tamperings(ct) ==
    {t \in {<<1, 0>>, <<1, 7>>, <<2, 7>>, <<18, 0>>, <<Len(ct) - 32, 3>>,
            <<Len(ct) - 31, 0>>, <<Len(ct), 7>>} : t[1] \in 1..Len(ct)}

NoResult == Throw("none", <<>>)
NoEnc == [op |-> "none", impl |-> "", key |-> <<>>, plainText |-> <<>>, ad |-> <<>>,
          hasRandomIv |-> FALSE, iv |-> <<>>, padding |-> FALSE, cipherVersion |-> "",
          out |-> NoResult]
NoDec == [op |-> "none", impl |-> "", key |-> <<>>, ad |-> <<>>, randomIv |-> FALSE,
          padding |-> FALSE, cipherVersion |-> "", out |-> NoResult]
NoTamper == [pos |-> 0, bit |-> 0]
NoSub == [impl |-> "", key |-> <<>>, version |-> "", res |-> NoSubKeys("none")]
NoConv == [op |-> "none", array |-> <<>>, accepted |-> {}, base64 |-> <<>>, keyLength |-> 0,
           out |-> NoResult]

\* The callers that use the singletons AES_CBC_FACADE and
\* SYMMETRIC_KEY_DERIVER at the same time
Callers == {1, 2}
NoCall == [pc |-> "idle", op |-> "", key |-> <<>>, data |-> <<>>, randomIv |-> FALSE,
           iv |-> <<>>, padding |-> FALSE, cipherVersion |-> "", subKeys |-> NoSubKeys("none"),
           body |-> <<>>, out |-> NoResult]

Init ==
    /\ enc = NoEnc
    /\ cipherText = <<>>
    /\ tampered = NoTamper
    /\ dec = NoDec
    /\ sub = NoSub
    /\ conv = NoConv
    /\ call = [c \in Callers |-> NoCall]
    /\ fixedIv = FIXED_IV

Idle == enc.op = "none" /\ sub.impl = ""
InFlight == enc.out.ok /\ dec.op = "none"

Encrypted(op, impl, key, plainText, ad, hasRandomIv, iv, padding, cipherVersion, out) ==
    /\ enc' = [op |-> op, impl |-> impl, key |-> key, plainText |-> plainText, ad |-> ad,
               hasRandomIv |-> hasRandomIv, iv |-> iv, padding |-> padding,
               cipherVersion |-> cipherVersion, out |-> out]
    /\ cipherText' = IF out.ok THEN out.val ELSE <<>>
    /\ UNCHANGED <<tampered, dec, sub, conv, call, fixedIv>>

Decrypted(op, impl, key, ad, randomIv, padding, cipherVersion, out) ==
    /\ dec' = [op |-> op, impl |-> impl, key |-> key, ad |-> ad, randomIv |-> randomIv,
               padding |-> padding, cipherVersion |-> cipherVersion, out |-> out]
    /\ UNCHANGED <<enc, cipherText, tampered, sub, conv, call, fixedIv>>

\* ------------------------------------------------------------ actions
\* a direct call of SymmetricKeyDeriver.deriveSubKeys
DeriveSubKeys ==
    /\ Idle
    /\ \E impl \in Impls, key \in Keys, version \in SymmetricCipherVersion :
          sub' = [impl |-> impl, key |-> key, version |-> version,
                  res |-> IF impl = "ts" THEN deriveSubKeys(key, version)
                          ELSE deriveSubKeysJava(key, version)]
    /\ UNCHANGED <<enc, cipherText, tampered, dec, conv, call, fixedIv>>

AesCbcEncrypt ==
    /\ Idle
    /\ \E impl \in Impls, key \in Keys, plainText \in PlainTexts, hasRandomIvToPrepend \in BOOLEAN,
          iv \in IVs, padding \in BOOLEAN, cipherVersion \in SymmetricCipherVersion :
           Encrypted("AesCbcFacade.encrypt", impl, key, plainText, <<>>, hasRandomIvToPrepend, iv,
                     padding, cipherVersion,
                     IF impl = "ts"
                     THEN AesCbcFacade_encrypt(key, plainText, hasRandomIvToPrepend, iv, padding,
                                               cipherVersion)
                     ELSE JavaAesCbcFacade_encrypt(key, plainText, hasRandomIvToPrepend, iv, padding,
                                                   cipherVersion))

AesCbcDecrypt ==
    /\ InFlight
    /\ \E impl \in (IF enc.op = "AesCbcFacade.encrypt" THEN {enc.impl} ELSE Impls),
          key \in Keys, randomIv \in BOOLEAN, padding \in BOOLEAN,
          cipherVersion \in SymmetricCipherVersion :
           Decrypted("AesCbcFacade.decrypt", impl, key, <<>>, randomIv, padding, cipherVersion,
                     IF impl = "ts"
                     THEN AesCbcFacade_decrypt(key, cipherText, randomIv, padding, cipherVersion)
                     ELSE JavaAesCbcFacade_decrypt(key, cipherText, randomIv, padding, cipherVersion))

AeadEncrypt ==
    /\ Idle
    /\ \E key \in Keys, plainText \in PlainTexts, iv \in IVs, padding \in BOOLEAN,
          associatedData \in ADs :
           Encrypted("AeadFacade.encrypt", "java", key, plainText, associatedData, TRUE, iv, padding,
                     Aead, AeadFacade_encrypt(key, plainText, iv, padding, associatedData))

AeadDecrypt ==
    /\ InFlight
    /\ \E key \in Keys, padding \in BOOLEAN, associatedData \in ADs :
           Decrypted("AeadFacade.decrypt", "java", key, associatedData, TRUE, padding, Aead,
                     AeadFacade_decrypt(key, cipherText, padding, associatedData))

\* an attacker inverts one bit of the envelope in flight
Tamper ==
    /\ InFlight
    /\ tampered.pos = 0
    /\ cipherText = enc.out.val
    /\ \E t \in Tamperings(cipherText) :
          /\ cipherText' = FlipBit(cipherText, t[1], t[2])
          /\ tampered' = [pos |-> t[1], bit |-> t[2]]
    /\ UNCHANGED <<enc, dec, sub, conv, call, fixedIv>>

Next ==
    \/ DeriveSubKeys
    \/ AesCbcEncrypt
    \/ AesCbcDecrypt
    \/ AeadEncrypt
    \/ AeadDecrypt
    \/ Tamper

Spec == Init /\ [][Next]_vars

\* ---------------------------------------------- facade and legacy actions
FacadeEncrypted(op, key, plainText, d) ==
    Encrypted(op, "java", key, plainText, <<>>, d.hasRandomIv, d.iv, d.padding,
              d.cipherVersion, d.out)

FacadeDecrypted(op, key, d) ==
    Decrypted(op, "java", key, <<>>, d.hasRandomIv, d.padding, d.cipherVersion, d.out)

\* the private encrypt(key, plainText, hasRandomIv, padding, cipherVersion)
FacadeEncrypt ==
    /\ Idle
    /\ \E key \in Keys, plainText \in PlainTexts, hasRandomIv \in BOOLEAN, padding \in BOOLEAN,
          cipherVersion \in SymmetricCipherVersion, random \in IVs, assertionsEnabled \in BOOLEAN :
           FacadeEncrypted("encrypt", key, plainText,
                           encrypt(key, plainText, hasRandomIv, padding, cipherVersion, random,
                                   assertionsEnabled))

EncryptBytes ==
    /\ Idle
    /\ \E key \in Keys, bytes \in PlainTexts, random \in IVs, assertionsEnabled \in BOOLEAN :
           FacadeEncrypted("encryptBytes", key, bytes,
                           encryptBytes(key, bytes, random, assertionsEnabled))

EncryptBytesDeprecatedUnauthenticated ==
    /\ Idle
    /\ \E key \in Keys, bytes \in PlainTexts, random \in IVs, assertionsEnabled \in BOOLEAN :
           FacadeEncrypted("encryptBytesDeprecatedUnauthenticated", key, bytes,
                           encryptBytesDeprecatedUnauthenticated(key, bytes, random,
                                                                 assertionsEnabled))

EncryptKey ==
    /\ Idle
    /\ \E key \in Keys, keyToEncrypt \in KeysToWrap, random \in IVs, assertionsEnabled \in BOOLEAN :
           FacadeEncrypted("encryptKey", key, keyToEncrypt,
                           encryptKey(key, keyToEncrypt, random, assertionsEnabled))

EncryptUtf8 ==
    /\ Idle
    /\ \E key \in Keys, utf8 \in Utf8Strings, random \in IVs, assertionsEnabled \in BOOLEAN :
           FacadeEncrypted("encryptUtf8", key, utf8GetBytes(utf8),
                           encryptUtf8(key, utf8, random, assertionsEnabled))

EncryptPrivateRsaKey ==
    /\ Idle
    /\ \E key \in Keys, byteKey \in PrivateKeyBlobs, random \in IVs, assertionsEnabled \in BOOLEAN :
           FacadeEncrypted("encryptPrivateRsaKey", key, byteKey,
                           encryptPrivateRsaKey(key, byteKey, random, assertionsEnabled))

AesEncrypt ==
    /\ Idle
    /\ \E key \in Keys, bytes \in PlainTexts, iv \in IVs, usePadding \in BOOLEAN,
          useMac \in BOOLEAN :
           Encrypted("aesEncrypt", "ts", key, bytes, <<>>, TRUE, iv, usePadding,
                     IF useMac THEN AesCbcThenHmac ELSE UnusedReservedUnauthenticated,
                     aesEncrypt(key, bytes, iv, usePadding, useMac))

Aes256EncryptSearchIndexEntry ==
    /\ Idle
    /\ \E key \in Keys, bytes \in PlainTexts, iv \in IVs, usePadding \in BOOLEAN :
           Encrypted("aes256EncryptSearchIndexEntry", "ts", key, bytes, <<>>, TRUE, iv, usePadding,
                     UnusedReservedUnauthenticated,
                     aes256EncryptSearchIndexEntry(key, bytes, iv, usePadding))

\* the private decrypt(key, cipherText, randomIv, padding)
FacadeDecrypt ==
    /\ InFlight
    /\ \E key \in Keys, randomIv \in BOOLEAN, padding \in BOOLEAN :
           FacadeDecrypted("decrypt", key, decrypt(key, cipherText, randomIv, padding))

DecryptBytes ==
    /\ InFlight
    /\ \E key \in Keys : FacadeDecrypted("decryptBytes", key, decryptBytes(key, cipherText))

DecryptKey ==
    /\ InFlight
    /\ \E key \in Keys : FacadeDecrypted("decryptKey", key, decryptKey(key, cipherText))

DecryptUtf8 ==
    /\ InFlight
    /\ \E key \in Keys : FacadeDecrypted("decryptUtf8", key, decryptUtf8(key, cipherText))

DecryptPrivateRsaKey ==
    /\ InFlight
    /\ \E key \in Keys :
           FacadeDecrypted("decryptPrivateRsaKey", key, decryptPrivateRsaKey(key, cipherText))

AuthenticatedAesDecrypt ==
    /\ InFlight
    /\ \E key \in Keys, usePadding \in BOOLEAN :
           Decrypted("authenticatedAesDecrypt", "ts", key, <<>>, TRUE, usePadding,
                     IF Len(cipherText) % 2 = 1 THEN AesCbcThenHmac
                     ELSE UnusedReservedUnauthenticated,
                     authenticatedAesDecrypt(key, cipherText, usePadding))

NextFacade ==
    \/ FacadeEncrypt
    \/ EncryptBytes
    \/ EncryptBytesDeprecatedUnauthenticated
    \/ EncryptKey
    \/ EncryptUtf8
    \/ EncryptPrivateRsaKey
    \/ AesEncrypt
    \/ Aes256EncryptSearchIndexEntry
    \/ AesCbcEncrypt
    \/ AeadEncrypt
    \/ Tamper
    \/ FacadeDecrypt
    \/ DecryptBytes
    \/ DecryptKey
    \/ DecryptUtf8
    \/ DecryptPrivateRsaKey
    \/ AuthenticatedAesDecrypt

SpecFacade == Init /\ [][NextFacade]_vars

\* ------------------------------------------------- key conversion actions
Converted(op, array, accepted, base64, keyLength, out) ==
    /\ conv' = [op |-> op, array |-> array, accepted |-> accepted, base64 |-> base64,
                keyLength |-> keyLength, out |-> out]
    /\ UNCHANGED <<enc, cipherText, tampered, dec, sub, call, fixedIv>>

\* getAndVerifyAesKeyLength on the BitArray of a byte array
GetAndVerifyAesKeyLength ==
    /\ conv.op = "none"
    /\ \E array \in KeyArrays, acceptedBitLengths \in AllowLists :
          LET keyLength == getAndVerifyAesKeyLength(uint8ArrayToBitArray(array),
                                                    acceptedBitLengths)
          IN Converted("getAndVerifyAesKeyLength", array, acceptedBitLengths, <<>>, keyLength,
                       IF keyLength = 0 THEN Throw("InvalidKeyLength", <<>>)
                       ELSE Ok(<<>>, <<>>))

BytesToKey ==
    /\ conv.op = "none"
    /\ \E array \in KeyArrays : Converted("bytesToKey", array, {}, <<>>, 0, bytesToKey(array))

Uint8ArrayToKey ==
    /\ conv.op = "none"
    /\ \E array \in KeyArrays :
          Converted("uint8ArrayToKey", array, {}, <<>>, 0, uint8ArrayToKey(array))

KeyToBase64 ==
    /\ conv.op = "none"
    /\ \E array \in KeyArrays :
          Converted("keyToBase64", array, {}, keyToBase64(uint8ArrayToBitArray(array)), 0,
                    NoResult)

\* base64ToKey on the string keyToBase64 made, or on that string with a
\* character outside the alphabet appended
Base64ToKey ==
    /\ conv.op = "keyToBase64"
    /\ \E base64 \in {conv.base64, conv.base64 \o <<Base64Pad + 1>>} :
          Converted("base64ToKey", conv.array, {}, base64, 0, base64ToKey(base64))

Base64ToKey_part_001 ==
    /\ conv.op = "keyToBase64"
    /\ \E base64 \in {conv.base64, conv.base64 \o <<Base64Pad + 1>>} :
          Converted("base64ToKey_part_001", conv.array, {}, base64, 0,
                    base64ToKey_part_001(base64))

\* uint8ArrayToBitArray on a byte array, and bitArrayToUint8Array on its result
Uint8ArrayToBitArray ==
    /\ conv.op = "none"
    /\ \E array \in KeyArrays :
          Converted("uint8ArrayToBitArray", array, {}, <<>>, 0,
                    Ok(uint8ArrayToBitArray(array), <<>>))

BitArrayToUint8Array ==
    /\ conv.op = "uint8ArrayToBitArray"
    /\ Converted("bitArrayToUint8Array", conv.array, {}, <<>>, 0,
                 Ok(bitArrayToUint8Array(conv.out.val), <<>>))

NextKeys ==
    \/ GetAndVerifyAesKeyLength
    \/ BytesToKey
    \/ Uint8ArrayToKey
    \/ KeyToBase64
    \/ Base64ToKey
    \/ Base64ToKey_part_001
    \/ Uint8ArrayToBitArray
    \/ BitArrayToUint8Array

SpecKeys == Init /\ [][NextKeys]_vars

\* --------------------------------------------------- damaged envelopes
\* The lengths an envelope may be cut to on its way
TruncatedLengths(ct) ==
    {n \in {0, 1, 15, 16, 17, 31, 32, 33, 48, Len(ct) - 1} : n \in 0..(Len(ct) - 1)}

\* the envelope arrives cut to its first n bytes
Truncate ==
    /\ InFlight
    /\ tampered.pos = 0
    /\ cipherText = enc.out.val
    /\ \E n \in TruncatedLengths(cipherText) : cipherText' = SubSeq(cipherText, 1, n)
    /\ UNCHANGED <<enc, tampered, dec, sub, conv, call, fixedIv>>

\* AesCbcFacade.decrypt with the flags of the encryption under another key of
\* the same length
AesCbcDecryptUnderOtherKey ==
    /\ InFlight
    /\ enc.op = "AesCbcFacade.encrypt"
    /\ enc.key = Key128
    /\ Decrypted("AesCbcFacade.decrypt", enc.impl, WrappedKey128, <<>>, enc.hasRandomIv,
                 enc.padding, enc.cipherVersion,
                 IF enc.impl = "ts"
                 THEN AesCbcFacade_decrypt(WrappedKey128, cipherText, enc.hasRandomIv, enc.padding,
                                           enc.cipherVersion)
                 ELSE JavaAesCbcFacade_decrypt(WrappedKey128, cipherText, enc.hasRandomIv,
                                               enc.padding, enc.cipherVersion))

NextDamaged ==
    \/ AesCbcEncrypt
    \/ Tamper
    \/ Truncate
    \/ AesCbcDecrypt
    \/ AesCbcDecryptUnderOtherKey

SpecDamaged == Init /\ [][NextDamaged]_vars

\* extractIvFromCipherText on the base64 text of the envelope as it arrives
ExtractIvFromCipherText ==
    /\ InFlight
    /\ LET encrypted == uint8ArrayToBase64(cipherText)
       IN Decrypted("extractIvFromCipherText", "ts", <<>>, <<>>, TRUE, TRUE, "",
                    extractIvFromCipherText(encrypted))

NextTruncated ==
    \/ AesCbcEncrypt
    \/ AeadEncrypt
    \/ Truncate
    \/ AesCbcDecrypt
    \/ AeadDecrypt
    \/ ExtractIvFromCipherText

SpecTruncated == Init /\ [][NextTruncated]_vars

\* ------------------------------------------ across the implementations
\* the implementation that did not encrypt
OtherImpl(impl) == IF impl = "ts" THEN "java" ELSE "ts"

\* AesCbcFacade.decrypt of the other implementation on the envelope
AesCbcDecryptByOther ==
    /\ InFlight
    /\ enc.op = "AesCbcFacade.encrypt"
    /\ \E key \in Keys, randomIv \in BOOLEAN, padding \in BOOLEAN,
          cipherVersion \in SymmetricCipherVersion :
           Decrypted("AesCbcFacade.decrypt", OtherImpl(enc.impl), key, <<>>, randomIv, padding,
                     cipherVersion,
                     IF OtherImpl(enc.impl) = "ts"
                     THEN AesCbcFacade_decrypt(key, cipherText, randomIv, padding, cipherVersion)
                     ELSE JavaAesCbcFacade_decrypt(key, cipherText, randomIv, padding, cipherVersion))

NextCross ==
    \/ AesCbcEncrypt
    \/ AesCbcDecrypt
    \/ AesCbcDecryptByOther

SpecCross == Init /\ [][NextCross]_vars

\* ------------------------------------- envelopes under another version
\* The leading bytes a holder of the key may put in place of the Aead
\* version byte
ForeignVersionBytes == {0, 1, 3}

\* A holder of the key hands AeadFacade.decrypt an envelope that carries
\* another leading byte, with the tag computed over that byte, the IV, the
\* body and the associated data
AeadRelabel ==
    /\ InFlight
    /\ enc.op = "AeadFacade.encrypt"
    /\ cipherText[1] = asBytes(Aead)[1]
    /\ \E v \in ForeignVersionBytes :
          LET subKeys == deriveSubKeysJava(enc.key, Aead)
              unauthenticatedData ==
                  <<v>> \o javaCopyOfRange(cipherText, SYMMETRIC_CIPHER_VERSION_PREFIX_LENGTH_BYTES,
                                           Len(cipherText) - SYMMETRIC_AUTHENTICATION_TAG_LENGTH_BYTES)
          IN cipherText' = unauthenticatedData
                              \o hmacSha256(subKeys.authenticationKey, unauthenticatedData \o enc.ad)
    /\ UNCHANGED <<enc, tampered, dec, sub, conv, call, fixedIv>>

NextAeadVersion ==
    \/ AeadEncrypt
    \/ AeadRelabel
    \/ AeadDecrypt

SpecAeadVersion == Init /\ [][NextAeadVersion]_vars

\* ------------------------------------------- encrypting under any IV
\* The encrypt operations that take the IV from their caller, called with
\* IVs of every length up to MaxIvLen
IvArray(n) == [i \in 1..n |-> (11 * i) % 256]
IvArrays == {IvArray(n) : n \in 0..MaxIvLen}

AesCbcEncryptWithIv ==
    /\ Idle
    /\ \E impl \in Impls, key \in Keys, plainText \in PlainTexts, hasRandomIvToPrepend \in BOOLEAN,
          iv \in IvArrays, padding \in BOOLEAN,
          cipherVersion \in {UnusedReservedUnauthenticated, AesCbcThenHmac, Aead} :
           Encrypted("AesCbcFacade.encrypt", impl, key, plainText, <<>>, hasRandomIvToPrepend, iv,
                     padding, cipherVersion,
                     IF impl = "ts"
                     THEN AesCbcFacade_encrypt(key, plainText, hasRandomIvToPrepend, iv, padding,
                                               cipherVersion)
                     ELSE JavaAesCbcFacade_encrypt(key, plainText, hasRandomIvToPrepend, iv,
                                                   padding, cipherVersion))

AeadEncryptWithIv ==
    /\ Idle
    /\ \E key \in Keys, plainText \in PlainTexts, iv \in IvArrays, padding \in BOOLEAN,
          associatedData \in ADs :
           Encrypted("AeadFacade.encrypt", "java", key, plainText, associatedData, TRUE, iv, padding,
                     Aead, AeadFacade_encrypt(key, plainText, iv, padding, associatedData))

AesEncryptWithIv ==
    /\ Idle
    /\ \E key \in Keys, bytes \in PlainTexts, iv \in IvArrays, usePadding \in BOOLEAN,
          useMac \in BOOLEAN :
           Encrypted("aesEncrypt", "ts", key, bytes, <<>>, TRUE, iv, usePadding,
                     IF useMac THEN AesCbcThenHmac ELSE UnusedReservedUnauthenticated,
                     aesEncrypt(key, bytes, iv, usePadding, useMac))

Aes256EncryptSearchIndexEntryWithIv ==
    /\ Idle
    /\ \E key \in Keys, bytes \in PlainTexts, iv \in IvArrays, usePadding \in BOOLEAN :
           Encrypted("aes256EncryptSearchIndexEntry", "ts", key, bytes, <<>>, TRUE, iv, usePadding,
                     UnusedReservedUnauthenticated,
                     aes256EncryptSearchIndexEntry(key, bytes, iv, usePadding))

NextIv ==
    \/ AesCbcEncryptWithIv
    \/ AeadEncryptWithIv
    \/ AesEncryptWithIv
    \/ Aes256EncryptSearchIndexEntryWithIv

SpecIv == Init /\ [][NextIv]_vars

\* ------------------------------------------------ concurrent facade calls
\* A call of AesCbcFacade.encrypt or AesCbcFacade.decrypt (TypeScript) runs in
\* steps that interleave with the steps of the other caller: deriveSubKeys,
\* then for encrypt the block cipher and the tag, for decrypt the
\* verification and the block cipher. subKeys and body are locals of the call.

\* The envelope a decrypt call is handed: what encrypt makes of the same
\* arguments, or nothing where encrypt fails
EnvelopeFor(key, randomIv, cipherVersion) ==
    LET r == AesCbcFacade_encrypt(key, PlainText(BLOCK_SIZE_BYTES), randomIv,
                                  IF randomIv THEN Iv(1) ELSE FIXED_IV, TRUE, cipherVersion)
    IN IF r.ok THEN r.val ELSE <<>>

\* Variant of the read of the local subKeys that takes the sub-keys derived
\* last by any caller, as a cache in the singleton would (C22 depends on the
\* sub-keys being a local of the call)
subKeysOf_Shared(calls, c) ==
    LET other == CHOOSE o \in Callers : o # c
    IN IF calls[other].subKeys.ok THEN calls[other].subKeys ELSE calls[c].subKeys

\* const subKeys of the call c
subKeysOf(calls, c) == calls[c].subKeys

Finished(c, out) ==
    call' = [call EXCEPT ![c].pc = "done", ![c].out = out]

\* a caller enters encrypt or decrypt with its arguments; without a random IV
\* the caller of encrypt passes the shared FIXED_IV
Invoke ==
    /\ Idle /\ conv.op = "none"
    /\ \E c \in Callers, op \in {"encrypt", "decrypt"}, key \in Keys, randomIv \in BOOLEAN,
          cipherVersion \in {UnusedReservedUnauthenticated, AesCbcThenHmac} :
          /\ call[c].pc = "idle"
          /\ call' = [call EXCEPT ![c] =
                 [NoCall EXCEPT !.pc = "called", !.op = op, !.key = key,
                                !.data = IF op = "encrypt" THEN PlainText(BLOCK_SIZE_BYTES)
                                         ELSE EnvelopeFor(key, randomIv, cipherVersion),
                                !.randomIv = randomIv,
                                !.iv = IF op = "decrypt" THEN <<>>
                                       ELSE IF randomIv THEN Iv(c) ELSE fixedIv,
                                !.padding = TRUE, !.cipherVersion = cipherVersion]]
    /\ UNCHANGED <<enc, cipherText, tampered, dec, sub, conv, fixedIv>>

\* this.symmetricKeyDeriver.deriveSubKeys(key, cipherVersion)
CallDerive ==
    /\ \E c \in Callers :
          /\ call[c].pc = "called"
          /\ LET subKeys == deriveSubKeys(call[c].key, call[c].cipherVersion)
             IN IF subKeys.ok
                THEN call' = [call EXCEPT ![c].pc = "derived", ![c].subKeys = subKeys]
                ELSE Finished(c, Throw(subKeys.err, <<"deriveSubKeys">>))
    /\ UNCHANGED <<enc, cipherText, tampered, dec, sub, conv, fixedIv>>

\* encrypt: sjcl.mode.cbc.encrypt under subKeys.encryptionKey
CallCbcEncrypt ==
    /\ \E c \in Callers :
          /\ call[c].pc = "derived" /\ call[c].op = "encrypt"
          /\ LET cbc == CbcEncrypt(subKeysOf(call, c).encryptionKey, call[c].iv, call[c].data,
                                   call[c].padding)
             IN IF cbc.ok
                THEN call' = [call EXCEPT ![c].pc = "ciphered",
                                          ![c].body = IF call[c].randomIv
                                                      THEN call[c].iv \o cbc.val ELSE cbc.val]
                ELSE Finished(c, Throw(cbc.err, <<"deriveSubKeys", "cbc.encrypt">>))
    /\ UNCHANGED <<enc, cipherText, tampered, dec, sub, conv, fixedIv>>

\* encrypt: the switch on cipherVersion, with the tag for AesCbcThenHmac
CallTag ==
    /\ \E c \in Callers :
          /\ call[c].pc = "ciphered"
          /\ Finished(c, IF call[c].cipherVersion = UnusedReservedUnauthenticated
                         THEN Ok(call[c].body, <<"deriveSubKeys", "cbc.encrypt">>)
                         ELSE Ok(asBytes(AesCbcThenHmac) \o call[c].body
                                     \o hmacSha256(subKeysOf(call, c).authenticationKey,
                                                   call[c].body),
                                 <<"deriveSubKeys", "cbc.encrypt", "hmacSha256">>))
    /\ UNCHANGED <<enc, cipherText, tampered, dec, sub, conv, fixedIv>>

\* decrypt: the switch on cipherVersion, with the verification for
\* AesCbcThenHmac
CallVerify ==
    /\ \E c \in Callers :
          /\ call[c].pc = "derived" /\ call[c].op = "decrypt"
          /\ IF call[c].cipherVersion = UnusedReservedUnauthenticated
             THEN call' = [call EXCEPT ![c].pc = "verified", ![c].body = call[c].data]
             ELSE LET cipherTextWithoutMacAndVersionByte ==
                          subarray(call[c].data, SYMMETRIC_CIPHER_VERSION_PREFIX_LENGTH_BYTES,
                                   Len(call[c].data) - SYMMETRIC_AUTHENTICATION_TAG_LENGTH_BYTES)
                      providedMacBytes ==
                          subarray(call[c].data,
                                   Len(call[c].data) - SYMMETRIC_AUTHENTICATION_TAG_LENGTH_BYTES,
                                   Len(call[c].data))
                  IN IF verifyHmacSha256(subKeysOf(call, c).authenticationKey,
                                         cipherTextWithoutMacAndVersionByte, providedMacBytes)
                     THEN call' = [call EXCEPT ![c].pc = "verified",
                                               ![c].body = cipherTextWithoutMacAndVersionByte]
                     ELSE Finished(c, Throw("AuthenticationFailed",
                                            <<"deriveSubKeys", "verifyHmacSha256">>))
    /\ UNCHANGED <<enc, cipherText, tampered, dec, sub, conv, fixedIv>>

\* decrypt: the IV is split off or read from the shared FIXED_IV, then
\* sjcl.mode.cbc.decrypt under subKeys.encryptionKey
CallCbcDecrypt ==
    /\ \E c \in Callers :
          /\ call[c].pc = "verified"
          /\ LET iv == IF call[c].randomIv THEN subarray(call[c].body, 0, IV_BYTE_LENGTH)
                       ELSE fixedIv
                 aesCbcCiphertext ==
                     IF call[c].randomIv
                     THEN subarray(call[c].body, IV_BYTE_LENGTH, Len(call[c].body))
                     ELSE call[c].body
                 cbc == CbcDecrypt(subKeysOf(call, c).encryptionKey, iv, aesCbcCiphertext,
                                   call[c].padding)
                 calls == IF call[c].cipherVersion = AesCbcThenHmac
                          THEN <<"deriveSubKeys", "verifyHmacSha256", "cbc.decrypt">>
                          ELSE <<"deriveSubKeys", "cbc.decrypt">>
             IN Finished(c, IF cbc.ok THEN Ok(cbc.val, calls)
                            ELSE Throw("DecryptionFailed", calls))
    /\ UNCHANGED <<enc, cipherText, tampered, dec, sub, conv, fixedIv>>

NextConcurrent ==
    \/ Invoke
    \/ CallDerive
    \/ CallCbcEncrypt
    \/ CallTag
    \/ CallVerify
    \/ CallCbcDecrypt

SpecConcurrent == Init /\ [][NextConcurrent]_vars

\* =============================================================== claims
\* The decrypt call mirrors the encrypt call: same codec, key and parameters
\* (and, for Aead, the same associated data)
SameParameters ==
    /\ enc.out.ok
    /\ dec.key = enc.key
    /\ dec.padding = enc.padding
    /\ \/ /\ enc.op = "AesCbcFacade.encrypt"
          /\ dec.op = "AesCbcFacade.decrypt"
          /\ dec.impl = enc.impl
          /\ dec.randomIv = enc.hasRandomIv
          /\ dec.cipherVersion = enc.cipherVersion
       \/ /\ enc.op = "AeadFacade.encrypt"
          /\ dec.op = "AeadFacade.decrypt"
          /\ dec.ad = enc.ad

ReturnsPlainText == dec.out.ok /\ dec.out.val = enc.plainText

\* C1 as stated: decrypt(encrypt(key, plaintext, iv, version)) with the same
\* parameters returns the plaintext, for every IV and both values of randomIv.
C1_RoundTripEveryIv ==
    (SameParameters /\ tampered.pos = 0) => ReturnsPlainText

\* C1 amended: the round trip holds for every IV that is prepended to the
\* envelope, and without a prepended IV when the IV is FIXED_IV, which is the
\* IV AesCbcFacade.decrypt then assumes.
C1_RoundTrip ==
    (/\ SameParameters
     /\ tampered.pos = 0
     /\ (enc.op = "AesCbcFacade.encrypt" /\ ~enc.hasRandomIv => enc.iv = FIXED_IV))
        => ReturnsPlainText

C1_Witness ==
    /\ SameParameters
    /\ tampered.pos = 0
    /\ enc.op = "AesCbcFacade.encrypt"
    /\ enc.cipherVersion = AesCbcThenHmac
    /\ enc.hasRandomIv
    /\ enc.iv # FIXED_IV
    /\ Len(enc.plainText) = MaxPlainLen
    /\ ReturnsPlainText

TaggedEnvelope == enc.out.ok /\ enc.cipherVersion \in {AesCbcThenHmac, Aead}

\* C2 as stated: a single inverted bit anywhere in an AesCbcThenHmac or Aead
\* envelope, the version byte included, makes decrypt fail with an
\* authentication failure.
C2_TamperAnyRegion ==
    (SameParameters /\ TaggedEnvelope /\ tampered.pos # 0)
        => (~dec.out.ok /\ dec.out.err = "AuthenticationFailed")

\* C2 amended: a single inverted bit in the IV, the body or the tag of an
\* AesCbcThenHmac envelope, or anywhere in an Aead envelope, makes decrypt fail
\* with an authentication failure; the version byte of an AesCbcThenHmac
\* envelope is outside the tag.
C2_TamperDetection ==
    (/\ SameParameters
     /\ TaggedEnvelope
     /\ tampered.pos # 0
     /\ (enc.cipherVersion = AesCbcThenHmac => tampered.pos # 1))
        => (~dec.out.ok /\ dec.out.err = "AuthenticationFailed")

C2_Witness ==
    /\ SameParameters
    /\ enc.cipherVersion = AesCbcThenHmac
    /\ tampered.pos = 18
    /\ dec.out.err = "AuthenticationFailed"

\* the position of a collaborator in the calls of the decrypt made (0: not called)
CallIndex(name) ==
    IF \E i \in 1..Len(dec.out.calls) : dec.out.calls[i] = name
    THEN CHOOSE i \in 1..Len(dec.out.calls) : dec.out.calls[i] = name
    ELSE 0

AuthenticatedDecrypt ==
    \/ dec.op = "AesCbcFacade.decrypt" /\ dec.cipherVersion = AesCbcThenHmac
    \/ dec.op = "AeadFacade.decrypt"

\* C3: in every decrypt for AesCbcThenHmac and Aead the block cipher runs only
\* after the MAC verification, and not at all when the verification fails.
C3_AuthenticateThenDecrypt ==
    AuthenticatedDecrypt =>
        /\ CallIndex("cbc.decrypt") # 0 =>
              /\ CallIndex("verifyHmacSha256") # 0
              /\ CallIndex("verifyHmacSha256") < CallIndex("cbc.decrypt")
              /\ dec.out.err # "AuthenticationFailed"
        /\ dec.out.ok => CallIndex("cbc.decrypt") # 0
        /\ dec.out.err = "AuthenticationFailed" =>
              CallIndex("cbc.decrypt") = 0 /\ ~dec.out.ok /\ dec.out.val = <<>>

C3_Witness ==
    /\ AuthenticatedDecrypt
    /\ tampered.pos # 0
    /\ dec.out.err = "AuthenticationFailed"
    /\ dec.out.calls = <<"deriveSubKeys", "verifyHmacSha256">>

\* C6: an Aead envelope decrypted with the same key but other associated data
\* fails with an authentication failure.
C6_AssociatedDataBinding ==
    (/\ enc.op = "AeadFacade.encrypt"
     /\ enc.out.ok
     /\ tampered.pos = 0
     /\ dec.op = "AeadFacade.decrypt"
     /\ dec.key = enc.key
     /\ dec.padding = enc.padding
     /\ dec.ad # enc.ad)
        => (~dec.out.ok /\ dec.out.err = "AuthenticationFailed")

C6_Witness ==
    /\ enc.op = "AeadFacade.encrypt"
    /\ enc.out.ok
    /\ tampered.pos = 0
    /\ dec.op = "AeadFacade.decrypt"
    /\ dec.key = enc.key
    /\ dec.padding = enc.padding
    /\ Len(dec.ad) = Len(enc.ad)
    /\ dec.ad # enc.ad
    /\ dec.out.err = "AuthenticationFailed"

\* C7: deriveSubKeys with UnusedReservedUnauthenticated fails for a 256-bit key
\* and succeeds for a 128-bit key; with AesCbcThenHmac and Aead it succeeds for
\* both, and for Aead both sub-keys are 256-bit.
C7_KeyLengthGating ==
    sub.impl # "" =>
        /\ sub.version = UnusedReservedUnauthenticated =>
              /\ Len(sub.key) = 32 => (~sub.res.ok /\ sub.res.err = "IncompatibleKeyVersion")
              /\ Len(sub.key) = 16 => sub.res.ok
        /\ sub.version \in {AesCbcThenHmac, Aead} => sub.res.ok
        /\ sub.version = Aead =>
              /\ Len(sub.res.encryptionKey) = AES256_KEY_LENGTH_BYTES
              /\ Len(sub.res.authenticationKey) = AES256_KEY_LENGTH_BYTES

C7_Witness ==
    /\ sub.impl = "java"
    /\ sub.version = UnusedReservedUnauthenticated
    /\ Len(sub.key) = 32
    /\ sub.res.err = "IncompatibleKeyVersion"

\* --------------------------------------------------------------- facade
FacadeEncryptOps ==
    {"encrypt", "encryptBytes", "encryptBytesDeprecatedUnauthenticated", "encryptKey"}

FacadeDecryptOps == {"decrypt", "decryptBytes", "decryptKey"}

LeadingByteRecognized == Len(cipherText) > 0 /\ cipherText[1] \in {1, 2}

FailsWith(out, err) == ~out.ok /\ out.err = err /\ out.val = <<>>

CbcLength(plainText, padding) ==
    IF padding THEN (Len(plainText) \div BLOCK_SIZE_BYTES + 1) * BLOCK_SIZE_BYTES
    ELSE Len(plainText)

\* what the envelope made holds besides the (prepended) IV and the CBC output
EnvelopeOverhead ==
    Len(enc.out.val) - (IF enc.hasRandomIv THEN IV_BYTE_LENGTH ELSE 0)
        - CbcLength(enc.plainText, enc.padding)

HasVersionByteAndTag ==
    /\ EnvelopeOverhead = SYMMETRIC_CIPHER_VERSION_PREFIX_LENGTH_BYTES
                              + SYMMETRIC_AUTHENTICATION_TAG_LENGTH_BYTES
    /\ enc.out.val[1] \in {1, 2}

\* C5 as stated: no encrypt operation returns a ciphertext without version byte
\* and tag under a 256-bit key.
C5_NoUnauthenticated256 ==
    (enc.out.ok /\ Len(enc.key) = 32) => HasVersionByteAndTag

\* C5 amended: under a 256-bit key every encrypt operation other than
\* aes256EncryptSearchIndexEntry returns an envelope with version byte and tag
\* or fails, and fails with the incompatible-key error when the unauthenticated
\* version is asked for; aes256EncryptSearchIndexEntry accepts 256-bit keys
\* only and returns IV and CBC output without version byte and tag.
C5_Unauthenticated256OnlySearchIndex ==
    /\ (enc.out.ok /\ Len(enc.key) = 32 /\ enc.op # "aes256EncryptSearchIndexEntry")
           => HasVersionByteAndTag
    /\ (/\ enc.op \notin {"none", "aes256EncryptSearchIndexEntry"}
        /\ Len(enc.key) = 32
        /\ enc.cipherVersion = UnusedReservedUnauthenticated)
           => FailsWith(enc.out, "IncompatibleKeyVersion")
    /\ (enc.op = "aes256EncryptSearchIndexEntry" /\ enc.out.ok)
           => (Len(enc.key) = 32 /\ EnvelopeOverhead = 0)

C5_Witness ==
    /\ enc.op = "aesEncrypt"
    /\ Len(enc.key) = 32
    /\ enc.cipherVersion = UnusedReservedUnauthenticated
    /\ FailsWith(enc.out, "IncompatibleKeyVersion")

\* C8 as stated: encryptKey and decryptKey use FIXED_IV, prepend or strip no
\* IV and do not pad, for both lengths of the wrapping key.
C8_FixedIvBothLengths ==
    /\ enc.op = "encryptKey" =>
          (~enc.hasRandomIv /\ enc.iv = FIXED_IV /\ ~enc.padding /\ enc.out.ok)
    /\ dec.op = "decryptKey" => (~dec.randomIv /\ ~dec.padding)

\* C8 amended: encryptKey and decryptKey never pad; under a 128-bit wrapping
\* key the CBC step uses FIXED_IV and the output is the CBC output alone, and
\* decryptKey strips no IV; under a 256-bit wrapping key encryptKey draws a
\* random IV and prepends it behind the version byte, and decryptKey takes the
\* first 16 bytes of the body as the IV.
C8_KeyWrapIv ==
    /\ enc.op = "encryptKey" =>
          /\ enc.out.ok
          /\ ~enc.padding
          /\ Len(enc.key) = 16 =>
                /\ ~enc.hasRandomIv
                /\ enc.iv = FIXED_IV
                /\ enc.out.val = CbcEncrypt(enc.key, FIXED_IV, enc.plainText, FALSE).val
          /\ Len(enc.key) = 32 =>
                /\ enc.hasRandomIv
                /\ SubSeq(enc.out.val, 2, 1 + IV_BYTE_LENGTH) = enc.iv
                /\ Len(enc.out.val) = 1 + IV_BYTE_LENGTH + Len(enc.plainText)
                                        + SYMMETRIC_AUTHENTICATION_TAG_LENGTH_BYTES
    /\ dec.op = "decryptKey" =>
          /\ ~dec.padding
          /\ dec.randomIv <=> Len(dec.key) = 32

C8_Witness ==
    /\ enc.op = "encryptKey"
    /\ Len(enc.key) = 32
    /\ enc.iv # FIXED_IV
    /\ tampered.pos = 0
    /\ dec.op = "decryptKey"
    /\ dec.key = enc.key
    /\ dec.randomIv
    /\ ReturnsPlainText

\* C9: encryptKey selects the version from the wrapping key alone: a 128-bit
\* wrapping key gives an UnusedReservedUnauthenticated envelope, as long as the
\* wrapped key and without version byte and tag; a 256-bit wrapping key gives
\* an AesCbcThenHmac envelope with leading byte 1 and the 32-byte tag of the
\* bytes between them; whatever the length of the wrapped key.
C9_VersionFromWrappingKey ==
    enc.op = "encryptKey" =>
        /\ enc.out.ok
        /\ Len(enc.key) = 16 =>
              /\ enc.cipherVersion = UnusedReservedUnauthenticated
              /\ Len(enc.out.val) = Len(enc.plainText)
        /\ Len(enc.key) = 32 =>
              /\ enc.cipherVersion = AesCbcThenHmac
              /\ enc.out.val[1] = 1
              /\ LET n == Len(enc.out.val)
                     macStart == n - SYMMETRIC_AUTHENTICATION_TAG_LENGTH_BYTES
                 IN /\ macStart > 1
                    /\ SubSeq(enc.out.val, macStart + 1, n) =
                          hmacSha256(deriveSubKeysJava(enc.key, AesCbcThenHmac).authenticationKey,
                                     SubSeq(enc.out.val, 2, macStart))

C9_Witness ==
    /\ enc.op = "encryptKey"
    /\ Len(enc.key) = 16
    /\ Len(enc.plainText) = 32
    /\ enc.out.ok
    /\ enc.cipherVersion = UnusedReservedUnauthenticated
    /\ Len(enc.out.val) = 32

FacadeExchange ==
    /\ enc.op \in FacadeEncryptOps
    /\ enc.out.ok
    /\ tampered.pos = 0
    /\ dec.op \in FacadeDecryptOps
    /\ dec.key = enc.key

LegacyKeyDecrypt ==
    /\ dec.op = "decryptKey"
    /\ Len(dec.key) = 16
    /\ Len(cipherText) = BLOCK_SIZE_BYTES

DecryptsWithoutTag ==
    /\ dec.out.ok
    /\ dec.cipherVersion = UnusedReservedUnauthenticated
    /\ CallIndex("verifyHmacSha256") = 0
    /\ dec.out.val = CbcDecrypt(dec.key, FIXED_IV, cipherText, FALSE).val
    /\ (enc.op = "encryptKey" /\ enc.key = dec.key /\ tampered.pos = 0) => ReturnsPlainText

C13_SubKeySeparation ==
    (sub.impl # "" /\ sub.res.ok) =>
        /\ sub.version \in {AesCbcThenHmac, Aead} =>
              /\ sub.res.authenticationKey # Null
              /\ sub.res.encryptionKey # sub.res.authenticationKey
              /\ sub.res.encryptionKey # sub.key
              /\ sub.res.authenticationKey # sub.key
        /\ sub.version = UnusedReservedUnauthenticated =>
              /\ sub.res.encryptionKey = sub.key
              /\ sub.res.authenticationKey = Null

C13_Witness ==
    /\ sub.impl = "ts"
    /\ sub.version = AesCbcThenHmac
    /\ sub.res.ok
    /\ Len(sub.key) = 32
    /\ Len(sub.res.encryptionKey) = 32
    /\ Len(sub.res.authenticationKey) = 32
    /\ sub.res.encryptionKey # sub.res.authenticationKey

\* The operations of SymmetricCipherFacade that go through the private encrypt
ThroughPrivateEncrypt ==
    enc.op \in {"encrypt", "encryptBytes", "encryptBytesDeprecatedUnauthenticated", "encryptKey"}

\* A second encryption of the same key and plaintext with the same flags,
\* when the random source delivers random
EncryptedAgain(random, assertionsEnabled) ==
    encrypt(enc.key, enc.plainText, enc.hasRandomIv, enc.padding, enc.cipherVersion, random,
            assertionsEnabled).out

\* C14: encrypting the same key and plaintext a second time with randomIv =
\* false gives the same bytes whatever the random source delivers; with
\* randomIv = true and a different IV from the random source the second
\* ciphertext differs from the first.
C14_FixedIvDeterminism ==
    (ThroughPrivateEncrypt /\ enc.out.ok) =>
        \A random \in IVs, assertionsEnabled \in BOOLEAN :
            /\ ~enc.hasRandomIv =>
                  /\ EncryptedAgain(random, assertionsEnabled).ok
                  /\ EncryptedAgain(random, assertionsEnabled).val = cipherText \/ tampered.pos # 0
                  /\ EncryptedAgain(random, assertionsEnabled).val = enc.out.val
            /\ (enc.hasRandomIv /\ random # enc.iv) =>
                  /\ EncryptedAgain(random, assertionsEnabled).ok
                  /\ EncryptedAgain(random, assertionsEnabled).val # enc.out.val

C14_Witness ==
    /\ enc.op = "encryptKey"
    /\ enc.out.ok
    /\ ~enc.hasRandomIv
    /\ enc.iv = FIXED_IV
    /\ tampered.pos = 0
    /\ cipherText = EncryptedAgain(Iv(1), FALSE).val
    /\ Len(cipherText) = BLOCK_SIZE_BYTES

BytesEncryptOps == {"encryptBytes", "encryptUtf8", "encryptPrivateRsaKey"}
BytesDecryptOps == {"decryptBytes", "decryptUtf8", "decryptPrivateRsaKey"}

\* C15: encryptBytes, encryptUtf8 and encryptPrivateRsaKey succeed under both
\* key lengths with an AesCbcThenHmac envelope: leading byte 1, then the 16
\* bytes drawn from the random source, then the padded CBC output and 32 bytes
\* of tag; decryptBytes, decryptUtf8 and decryptPrivateRsaKey parse with
\* randomIv = true and padding on, and under the same key return the bytes
\* that were encrypted from an untouched envelope.
C15_BytesOperations ==
    /\ enc.op \in BytesEncryptOps =>
          /\ enc.out.ok
          /\ enc.cipherVersion = AesCbcThenHmac
          /\ enc.hasRandomIv /\ enc.padding
          /\ Len(enc.iv) = IV_BYTE_LENGTH
          /\ enc.out.val[1] = 1
          /\ SubSeq(enc.out.val, 2, 1 + IV_BYTE_LENGTH) = enc.iv
          /\ Len(enc.out.val) = SYMMETRIC_CIPHER_VERSION_PREFIX_LENGTH_BYTES + IV_BYTE_LENGTH
                                   + CbcLength(enc.plainText, TRUE)
                                   + SYMMETRIC_AUTHENTICATION_TAG_LENGTH_BYTES
    /\ dec.op \in BytesDecryptOps => (dec.randomIv /\ dec.padding)
    /\ (enc.op \in BytesEncryptOps /\ dec.op \in BytesDecryptOps /\ dec.key = enc.key
            /\ tampered.pos = 0) => ReturnsPlainText

C15_Witness ==
    /\ enc.op = "encryptBytes"
    /\ Len(enc.key) = 32
    /\ enc.iv = Iv(1)
    /\ Len(enc.plainText) = MaxPlainLen
    /\ tampered.pos = 0
    /\ dec.op = "decryptBytes"
    /\ dec.key = enc.key
    /\ ReturnsPlainText

\* What C16 expects of a key of the given byte array and allow-list: 128 for 16
\* bytes, 256 for 32 bytes, each only if the allow-list holds it, and a
\* failure (0) otherwise
ClassifiedByBytes(array, accepted) ==
    IF Len(array) = 16 /\ Aes128 \in accepted THEN Aes128
    ELSE IF Len(array) = 32 /\ Aes256 \in accepted THEN Aes256
    ELSE 0

\* C16: getAndVerifyAesKeyLength returns 128 for a 16-byte key and 256 for a
\* 32-byte key and fails for a key of every other length and for a length that
\* is not in the allow-list passed; bytesToKey accepts arrays of 16 and of 32
\* bytes only.
C16_KeyLengthClassification ==
    /\ conv.op = "getAndVerifyAesKeyLength" =>
          /\ conv.keyLength = ClassifiedByBytes(conv.array, conv.accepted)
          /\ conv.out.ok <=> conv.keyLength # 0
    /\ conv.op = "bytesToKey" => (conv.out.ok <=> Len(conv.array) \in {16, 32})

\* A key of 15 bytes passes as a 128-bit key
C16_Witness ==
    /\ conv.op = "getAndVerifyAesKeyLength"
    /\ Len(conv.array) = 15
    /\ conv.accepted = {Aes128}
    /\ conv.out.ok
    /\ conv.keyLength = Aes128

\* The string decoded is the one keyToBase64 made of the key
DecodedWhatWasEncoded ==
    /\ conv.op \in {"base64ToKey", "base64ToKey_part_001"}
    /\ conv.base64 = keyToBase64(uint8ArrayToBitArray(conv.array))

\* C20: base64ToKey returns, for the base64 string of a key of 16 or of 32
\* bytes, that key bit for bit, and fails with CryptoError("hex to aes key
\* failed") for the base64 string of any other number of bytes.
C20_Base64RoundTrip ==
    DecodedWhatWasEncoded =>
        IF Len(conv.array) \in {16, 32}
        THEN /\ conv.out.ok
             /\ conv.out.val = uint8ArrayToBitArray(conv.array)
             /\ keyToUint8Array(conv.out.val) = conv.array
        ELSE ~conv.out.ok /\ conv.out.err = "hex to aes key failed"

\* The base64 string of 15 bytes decodes to a key that base64ToKey returns
C20_Witness ==
    /\ DecodedWhatWasEncoded
    /\ conv.op = "base64ToKey"
    /\ Len(conv.array) = 15
    /\ conv.out.ok
    /\ keyToUint8Array(conv.out.val) = conv.array

\* The state an encrypt call leaves when it has returned an envelope
JustEncrypted == enc.out.ok /\ tampered.pos = 0 /\ dec.op = "none"

\* The sub-keys the codec that encrypted derives for its key and version
EncSubKeys ==
    IF enc.impl = "ts" THEN deriveSubKeys(enc.key, enc.cipherVersion)
    ELSE deriveSubKeysJava(enc.key, enc.cipherVersion)

\* The CBC output for the plaintext that was encrypted
EncCbc == CbcEncrypt(EncSubKeys.encryptionKey, enc.iv, enc.plainText, enc.padding).val

\* The parts of the output of an encrypt call: what lies before the last 32
\* bytes, and the last 32 bytes
BeforeTag(out) == SubSeq(out, 1, Len(out) - SYMMETRIC_AUTHENTICATION_TAG_LENGTH_BYTES)
TagOf(out) == SubSeq(out, Len(out) - SYMMETRIC_AUTHENTICATION_TAG_LENGTH_BYTES + 1, Len(out))

\* C17: every output of AesCbcFacade.encrypt for AesCbcThenHmac is the byte 1,
\* the IV if it is prepended, the CBC output and 32 bytes of tag; the tag is
\* the HMAC-SHA256 under the derived authentication key of the IV (if
\* prepended) and the CBC output, the version byte not included.
C17_AesCbcThenHmacLayout ==
    (JustEncrypted /\ enc.op = "AesCbcFacade.encrypt" /\ enc.cipherVersion = AesCbcThenHmac) =>
        LET out == enc.out.val
            body == (IF enc.hasRandomIv THEN enc.iv ELSE <<>>) \o EncCbc
        IN /\ Len(out) = 1 + (IF enc.hasRandomIv THEN 16 ELSE 0) + Len(EncCbc) + 32
           /\ out[1] = 1
           /\ BeforeTag(out) = <<1>> \o body
           /\ TagOf(out) = hmacSha256(EncSubKeys.authenticationKey, body)
           /\ TagOf(out) # hmacSha256(EncSubKeys.authenticationKey, <<1>> \o body)
           /\ out = <<1>> \o body \o TagOf(out)

C17_Witness ==
    /\ enc.op = "AesCbcFacade.encrypt"
    /\ enc.impl = "ts"
    /\ enc.cipherVersion = AesCbcThenHmac
    /\ enc.out.ok
    /\ enc.hasRandomIv
    /\ enc.iv = Iv(1)
    /\ Len(enc.plainText) = MaxPlainLen
    /\ enc.padding
    /\ Len(enc.out.val) = 1 + 16 + 32 + 32

\* C18: every output of AeadFacade.encrypt is the byte 2, the 16 bytes of IV,
\* the CBC output and 32 bytes of tag; the tag is the HMAC-SHA256 under the
\* derived authentication key of the byte 2, the IV, the CBC output and the
\* associated data; the associated data is no part of the envelope.
C18_AeadLayout ==
    (JustEncrypted /\ enc.op = "AeadFacade.encrypt") =>
        LET out == enc.out.val
            unauthenticatedData == <<2>> \o enc.iv \o EncCbc
        IN /\ Len(enc.iv) = 16
           /\ Len(out) = 1 + 16 + Len(EncCbc) + 32
           /\ BeforeTag(out) = unauthenticatedData
           /\ TagOf(out) = hmacSha256(EncSubKeys.authenticationKey,
                                      unauthenticatedData \o enc.ad)
           /\ enc.ad # <<>> =>
                 TagOf(out) # hmacSha256(EncSubKeys.authenticationKey, unauthenticatedData)
           /\ out = unauthenticatedData \o TagOf(out)

C18_Witness ==
    /\ enc.op = "AeadFacade.encrypt"
    /\ enc.out.ok
    /\ enc.ad = <<9>>
    /\ enc.iv = Iv(1)
    /\ Len(enc.key) = 16
    /\ Len(enc.plainText) = BLOCK_SIZE_BYTES
    /\ enc.padding
    /\ Len(enc.out.val) = 1 + 16 + 32 + 32
    /\ enc.out.val[1] = 2

\* The CBC decryption of the whole envelope in flight under the key and flags
\* of the decrypt call: the first 16 bytes are the IV when randomIv is set
WholeInputDecrypted ==
    CbcDecrypt(dec.key,
               IF dec.randomIv THEN SubSeq(cipherText, 1, IV_BYTE_LENGTH) ELSE FIXED_IV,
               IF dec.randomIv THEN SubSeq(cipherText, IV_BYTE_LENGTH + 1, Len(cipherText))
               ELSE cipherText,
               dec.padding)

\* C19: every output of AesCbcFacade.encrypt for UnusedReservedUnauthenticated
\* is the IV, if it is prepended, followed by the CBC output and nothing else;
\* AesCbcFacade.decrypt for that version verifies no tag and hands the whole
\* input to the CBC step, so it succeeds exactly when the whole input decrypts
\* and returns that plaintext.
C19_UnusedLayout ==
    /\ (JustEncrypted /\ enc.op = "AesCbcFacade.encrypt"
            /\ enc.cipherVersion = UnusedReservedUnauthenticated) =>
          /\ EncSubKeys.encryptionKey = enc.key
          /\ enc.out.val = (IF enc.hasRandomIv THEN enc.iv ELSE <<>>) \o EncCbc
          /\ Len(enc.out.val) = (IF enc.hasRandomIv THEN 16 ELSE 0) + Len(EncCbc)
    /\ (dec.op = "AesCbcFacade.decrypt" /\ dec.cipherVersion = UnusedReservedUnauthenticated
            /\ Len(dec.key) = 16) =>
          /\ CallIndex("verifyHmacSha256") = 0
          /\ IF dec.randomIv /\ Len(cipherText) < IV_BYTE_LENGTH
             THEN ~dec.out.ok
             ELSE /\ dec.out.ok = WholeInputDecrypted.ok
                  /\ dec.out.ok => dec.out.val = WholeInputDecrypted.val

C19_Witness ==
    /\ enc.op = "AesCbcFacade.encrypt"
    /\ enc.cipherVersion = UnusedReservedUnauthenticated
    /\ enc.hasRandomIv /\ enc.iv = Iv(1) /\ enc.padding
    /\ Len(enc.plainText) = MaxPlainLen
    /\ tampered.pos = 0
    /\ Len(cipherText) = 16 + 32
    /\ SubSeq(cipherText, 1, 16) = enc.iv
    /\ SameParameters
    /\ dec.impl = "ts"
    /\ ReturnsPlainText

\* C21: bitArrayToUint8Array(uint8ArrayToBitArray(b)) is b, with the same
\* length, for every byte array b, those whose length is no multiple of 4
\* included; the BitArray in between has one word per four bytes begun.
C21_BitArrayRoundTrip ==
    /\ conv.op = "uint8ArrayToBitArray" =>
          /\ Len(conv.out.val) = (Len(conv.array) + 3) \div 4
          /\ bitArrayToUint8Array(conv.out.val) = conv.array
    /\ conv.op = "bitArrayToUint8Array" =>
          /\ conv.out.ok
          /\ Len(conv.out.val) = Len(conv.array)
          /\ conv.out.val = conv.array

C21_Witness ==
    /\ conv.op = "bitArrayToUint8Array"
    /\ Len(conv.array) = 13
    /\ conv.array[1] > 127
    /\ conv.out.val = conv.array

\* ---------------------------------------------------------------- C22
RunAlone(c) ==
    IF call[c].op = "encrypt"
    THEN AesCbcFacade_encrypt(call[c].key, call[c].data, call[c].randomIv, call[c].iv,
                              call[c].padding, call[c].cipherVersion)
    ELSE AesCbcFacade_decrypt(call[c].key, call[c].data, call[c].randomIv, call[c].padding,
                              call[c].cipherVersion)

\* C22: under every interleaving of the steps of two concurrent
\* AesCbcFacade calls on the singleton, a finished call has the result
\* (value or error) the same call gives when run alone; the sub-keys a call
\* holds are the ones derived from its own key and version; and the shared
\* FIXED_IV keeps its content.
C22_CallIndependence ==
    /\ fixedIv = FIXED_IV
    /\ \A c \in Callers :
          /\ call[c].pc \in {"derived", "ciphered", "verified"} =>
                call[c].subKeys = deriveSubKeys(call[c].key, call[c].cipherVersion)
          /\ call[c].pc = "done" =>
                /\ call[c].out.ok = RunAlone(c).ok
                /\ call[c].out.val = RunAlone(c).val
                /\ call[c].out.err = RunAlone(c).err

\* both callers finished with a result, one an encrypt and one a decrypt,
\* under different keys and different versions
C22_Witness ==
    /\ call[1].pc = "done" /\ call[2].pc = "done"
    /\ call[1].op = "encrypt" /\ call[2].op = "decrypt"
    /\ call[1].key # call[2].key
    /\ call[1].cipherVersion # call[2].cipherVersion
    /\ call[1].out.ok /\ call[2].out.ok
    /\ call[2].out.val = PlainText(BLOCK_SIZE_BYTES)

\* ---------------------------------------------------------------- C23
WrongIvLength == enc.op # "none" /\ Len(enc.iv) # IV_BYTE_LENGTH

\* the key passes the checks the operation makes before it comes to the IV
KeyAccepted ==
    CASE enc.op = "aesEncrypt" ->
           getAndVerifyAesKeyLength(uint8ArrayToBitArray(enc.key), ACCEPTED_BIT_LENGTHS) # 0
      [] enc.op = "aes256EncryptSearchIndexEntry" ->
           getAndVerifyAesKeyLength(uint8ArrayToBitArray(enc.key), {Aes256}) # 0
      [] enc.op = "AesCbcFacade.encrypt" /\ enc.impl = "ts" ->
           deriveSubKeys(enc.key, enc.cipherVersion).ok
      [] OTHER -> deriveSubKeysJava(enc.key, enc.cipherVersion).ok

\* C23 as stated: every encrypt that is handed an IV of another length
\* than 16 bytes fails with the invalid-IV-length error and produces no
\* ciphertext.
C23_IvLengthCheck ==
    WrongIvLength =>
        /\ ~enc.out.ok
        /\ enc.out.err = "InvalidIvLength"
        /\ cipherText = <<>>

\* C23 amended: an IV of another length than 16 bytes never yields a
\* ciphertext, and the failure is the invalid-IV-length error whenever the
\* key has passed the operation's key checks, which come first.
C23_IvLengthCheckAfterKey ==
    WrongIvLength =>
        /\ ~enc.out.ok
        /\ enc.out.val = <<>>
        /\ cipherText = <<>>
        /\ KeyAccepted <=> enc.out.err = "InvalidIvLength"

C23_Witness ==
    /\ enc.op = "aesEncrypt"
    /\ Len(enc.iv) = IV_BYTE_LENGTH + 1
    /\ enc.key = Key256
    /\ enc.cipherVersion = UnusedReservedUnauthenticated
    /\ enc.out.err = "InvalidIvLength"

\* ---------------------------------------------------------------- C24
\* C24: AeadFacade.decrypt fails on every envelope whose leading byte is
\* not the Aead version byte, also when the tag over it verifies; it never
\* returns a plaintext for such an envelope.
C24_AeadVersionByteChecked ==
    (dec.op = "AeadFacade.decrypt" /\ cipherText[1] # asBytes(Aead)[1]) => ~dec.out.ok

\* an envelope relabelled to the AesCbcThenHmac byte was decrypted to the
\* plaintext that had been encrypted
C24_Witness ==
    /\ dec.op = "AeadFacade.decrypt"
    /\ cipherText[1] = asBytes(AesCbcThenHmac)[1]
    /\ dec.out.ok
    /\ dec.out.val = enc.plainText
    /\ Len(enc.plainText) = MaxPlainLen

\* ---------------------------------------------------------------- C25
\* the sub-keys HKDF gives for the info "AEAD key splitting" || 0x02
AeadSubKeysOf(key) ==
    LET derivedKeys == hkdf(Null, key, AEAD_KEY_DERIVATION_INFO \o <<2>>, 64)
    IN SubKeys(copyOfRange(derivedKeys, 0, 32), copyOfRange(derivedKeys, 32, 64))

\* C25: deriveSubKeys(key, Aead), in TypeScript as in Java, returns the two
\* 32-byte halves of HKDF(salt null, the raw key, info = the ASCII bytes of
\* "AEAD key splitting" followed by 0x02, 64 bytes): the first half as the
\* encryption key, the second as the authentication key.
C25_AeadDerivation ==
    (sub.impl # "" /\ sub.version = Aead) => sub.res = AeadSubKeysOf(sub.key)

\* the TypeScript deriver returned, for the Aead version, sub-keys of 32 bytes
\* each that are not the ones the Java deriver returns for the same key
C25_Witness ==
    /\ sub.impl = "ts"
    /\ sub.version = Aead
    /\ sub.res.ok
    /\ Len(sub.res.encryptionKey) = 32 /\ Len(sub.res.authenticationKey) = 32
    /\ deriveSubKeysJava(sub.key, Aead) = AeadSubKeysOf(sub.key)
    /\ sub.res # deriveSubKeysJava(sub.key, Aead)

\* ---------------------------------------------------------------- C26
HashOfMasterKey == IF Len(sub.key) = 16 THEN sha256Hash(sub.key) ELSE sha512Hash(sub.key)

\* C26: for AesCbcThenHmac both derivers hash a 128-bit key with SHA-256 and
\* a 256-bit key with SHA-512; the encryption key is the first keyLength
\* bytes of the hash and the authentication key the following keyLength
\* bytes; the two together are the whole hash and each is as long as the
\* master key.
C26_HashedSubKeys ==
    (sub.impl # "" /\ sub.version = AesCbcThenHmac) =>
        /\ sub.res.ok
        /\ sub.res.encryptionKey = SubSeq(HashOfMasterKey, 1, Len(sub.key))
        /\ sub.res.authenticationKey = SubSeq(HashOfMasterKey, Len(sub.key) + 1, 2 * Len(sub.key))
        /\ sub.res.encryptionKey \o sub.res.authenticationKey = HashOfMasterKey
        /\ Len(sub.res.encryptionKey) = Len(sub.key)
        /\ Len(sub.res.authenticationKey) = Len(sub.key)

C26_Witness ==
    /\ sub.impl = "java"
    /\ sub.version = AesCbcThenHmac
    /\ sub.key = Key256
    /\ sub.res.ok
    /\ sub.res.encryptionKey \o sub.res.authenticationKey = sha512Hash(Key256)
    /\ Len(sub.res.authenticationKey) = 32

\* ---------------------------------------------------------------- C27
\* an envelope of AesCbcFacade.encrypt, whose IV the receiver can know, is
\* decrypted by the same implementation with the flags and the version of
\* the encryption, under the same or another key, intact or damaged
DecryptOfEnvelope ==
    /\ enc.op = "AesCbcFacade.encrypt" /\ enc.out.ok
    /\ enc.cipherVersion \in {UnusedReservedUnauthenticated, AesCbcThenHmac}
    /\ enc.hasRandomIv \/ enc.iv = FIXED_IV
    /\ dec.op = "AesCbcFacade.decrypt"
    /\ dec.impl = enc.impl
    /\ dec.randomIv = enc.hasRandomIv
    /\ dec.padding = enc.padding
    /\ dec.cipherVersion = enc.cipherVersion
    /\ Len(dec.key) = Len(enc.key)

Truncated == Len(cipherText) < Len(enc.out.val)
Damaged == dec.key # enc.key \/ tampered.pos # 0 \/ Truncated
\* what is left for the block cipher is a whole number of blocks
WholeBlocks ==
    LET n == Len(cipherText) - (IF dec.randomIv THEN IV_BYTE_LENGTH ELSE 0)
    IN IF n < 0 THEN FALSE ELSE n % BLOCK_SIZE_BYTES = 0
BlockCipherRaised == ~dec.out.ok /\ dec.out.calls # <<>> /\ dec.out.calls[Len(dec.out.calls)] = "cbc.decrypt"

\* C27 as stated: for every version, decrypt either returns the plaintext
\* that was encrypted or fails; it never returns other bytes, and when the
\* block cipher was reached and the plaintext is not recovered the failure is
\* the decryption-failed error.
C27_NeverGarbage ==
    DecryptOfEnvelope =>
        /\ dec.out.ok => dec.out.val = enc.plainText
        /\ BlockCipherRaised => dec.out.err = "DecryptionFailed"

\* C27 amended: an error of the block cipher is always reported as
\* decryption-failed and gives no bytes; an AesCbcThenHmac envelope that is
\* damaged behind its version byte or opened under another key fails before
\* the block cipher, and a
\* value returned for this version is the plaintext; an
\* UnusedReservedUnauthenticated envelope whose body is not a whole number of
\* blocks fails, but one whose body is changed or opened under another key
\* with padding off is decrypted to other bytes than the plaintext without an
\* error.
C27_FailsWhereDetectable ==
    DecryptOfEnvelope =>
        /\ BlockCipherRaised => (dec.out.err = "DecryptionFailed" /\ dec.out.val = <<>>)
        /\ dec.cipherVersion = AesCbcThenHmac =>
              /\ dec.out.ok => dec.out.val = enc.plainText
              /\ (Damaged /\ tampered.pos # 1) =>
                    /\ ~dec.out.ok
                    /\ dec.impl = "ts" => dec.out.err = "AuthenticationFailed"
        /\ (dec.cipherVersion = UnusedReservedUnauthenticated /\ ~WholeBlocks) =>
              /\ ~dec.out.ok
              /\ dec.impl = "ts" => dec.out.err = "DecryptionFailed"
        /\ (dec.cipherVersion = UnusedReservedUnauthenticated /\ ~dec.padding
                /\ Damaged /\ ~Truncated /\ enc.plainText # <<>>) =>
              /\ dec.out.ok
              /\ dec.out.val # enc.plainText

\* an unauthenticated envelope opened under another 128-bit key with padding
\* off gave bytes that are not the plaintext
C27_Witness ==
    /\ DecryptOfEnvelope
    /\ dec.impl = "ts"
    /\ dec.cipherVersion = UnusedReservedUnauthenticated
    /\ ~dec.padding
    /\ dec.key = WrappedKey128 /\ enc.key = Key128
    /\ tampered.pos = 0 /\ ~Truncated
    /\ dec.out.ok
    /\ Len(dec.out.val) = Len(enc.plainText)
    /\ dec.out.val # enc.plainText

\* ---------------------------------------------------------------- C28
\* the envelope of an AesCbcFacade.encrypt with a prepended IV and padding
\* on, handed whole to extractIvFromCipherText
IvExtractedFromEnvelope ==
    /\ dec.op = "extractIvFromCipherText"
    /\ enc.op = "AesCbcFacade.encrypt"
    /\ enc.hasRandomIv /\ enc.padding
    /\ cipherText = enc.out.val

\* C28: for every envelope made with a prepended IV and padding on,
\* extractIvFromCipherText on its base64 text returns the IV of the
\* encryption: an AesCbcThenHmac envelope has odd length and the IV in bytes
\* 1..16, a legacy envelope has even length and the IV in bytes 0..15.
C28_ExtractIv ==
    IvExtractedFromEnvelope =>
        /\ dec.out.ok
        /\ dec.out.val = enc.iv
        /\ base64ToUint8Array(uint8ArrayToBase64(cipherText)) = cipherText
        /\ enc.cipherVersion = AesCbcThenHmac =>
              /\ Len(cipherText) % 2 = 1
              /\ dec.out.val = SubSeq(cipherText, 2, 17)
        /\ enc.cipherVersion = UnusedReservedUnauthenticated =>
              /\ Len(cipherText) % 2 = 0
              /\ dec.out.val = SubSeq(cipherText, 1, 16)

C28_Witness ==
    /\ IvExtractedFromEnvelope
    /\ enc.cipherVersion = AesCbcThenHmac
    /\ enc.impl = "ts"
    /\ enc.iv = Iv(1)
    /\ Len(enc.plainText) = MaxPlainLen
    /\ dec.out.val = Iv(1)

\* ---------------------------------------------------------------- C29
\* the bytes left of the arriving envelope once the version byte and the tag
\* are removed (none when it is shorter than the two together)
RemainingBytes ==
    IF Len(cipherText) % 2 = 1
    THEN (IF Len(cipherText) < 1 + MAC_LENGTH_BYTES THEN 0
          ELSE Len(cipherText) - 1 - MAC_LENGTH_BYTES)
    ELSE Len(cipherText)

\* C29: AesCbcFacade.decrypt for AesCbcThenHmac on fewer than 1 + 32 bytes
\* (1 + 16 + 32 with randomIv) and AeadFacade.decrypt on fewer than
\* 1 + 16 + 32 bytes fail and return nothing; extractIvFromCipherText fails
\* with a CryptoError when fewer than 16 bytes remain after the version byte
\* and the tag are removed, and returns exactly 16 bytes otherwise.
C29_TruncatedRejected ==
    /\ (dec.op = "AesCbcFacade.decrypt" /\ dec.cipherVersion = AesCbcThenHmac
          /\ Len(cipherText) < (IF dec.randomIv THEN 49 ELSE 33)) =>
            (~dec.out.ok /\ dec.out.val = <<>>)
    /\ (dec.op = "AeadFacade.decrypt" /\ Len(cipherText) < 49) =>
            (~dec.out.ok /\ dec.out.val = <<>>)
    /\ dec.op = "extractIvFromCipherText" =>
            IF RemainingBytes < IV_BYTE_LENGTH
            THEN ~dec.out.ok /\ dec.out.err = "InsufficientBytes"
            ELSE dec.out.ok /\ Len(dec.out.val) = IV_BYTE_LENGTH

\* What does hold of the three operations: the same, leaving out
\* extractIvFromCipherText on an odd number of bytes below 1 + 32
TruncatedRejectedElsewhere ==
    /\ (dec.op = "AesCbcFacade.decrypt" /\ dec.cipherVersion = AesCbcThenHmac
          /\ Len(cipherText) < (IF dec.randomIv THEN 49 ELSE 33)) =>
            (~dec.out.ok /\ dec.out.val = <<>>)
    /\ (dec.op = "AeadFacade.decrypt" /\ Len(cipherText) < 49) =>
            (~dec.out.ok /\ dec.out.val = <<>>)
    /\ (dec.op = "extractIvFromCipherText"
          /\ (Len(cipherText) % 2 = 0 \/ Len(cipherText) >= 1 + MAC_LENGTH_BYTES)) =>
            IF RemainingBytes < IV_BYTE_LENGTH
            THEN ~dec.out.ok /\ dec.out.err = "InsufficientBytes"
            ELSE dec.out.ok /\ Len(dec.out.val) = IV_BYTE_LENGTH

\* an envelope cut to 31 bytes, shorter than version byte and tag together,
\* for which extractIvFromCipherText returned 16 bytes
C29_Witness ==
    /\ dec.op = "extractIvFromCipherText"
    /\ Len(cipherText) = 31
    /\ dec.out.ok
    /\ dec.out.val = SubSeq(cipherText, 2, 17)

\* ---------------------------------------------------------------- C30
\* what the other implementation's encrypt returns for the arguments of the
\* encryption made
EncryptByOther ==
    IF enc.impl = "ts"
    THEN JavaAesCbcFacade_encrypt(enc.key, enc.plainText, enc.hasRandomIv, enc.iv, enc.padding,
                                  enc.cipherVersion)
    ELSE AesCbcFacade_encrypt(enc.key, enc.plainText, enc.hasRandomIv, enc.iv, enc.padding,
                              enc.cipherVersion)

SameBytesOrBothFail ==
    enc.op = "AesCbcFacade.encrypt" =>
        /\ enc.out.ok = EncryptByOther.ok
        /\ enc.out.val = EncryptByOther.val

\* the other implementation decrypts with the key, the flags and the version
\* of the encryption
DecryptedByOther ==
    /\ enc.op = "AesCbcFacade.encrypt" /\ enc.out.ok
    /\ dec.op = "AesCbcFacade.decrypt"
    /\ dec.impl = OtherImpl(enc.impl)
    /\ dec.key = enc.key
    /\ dec.randomIv = enc.hasRandomIv
    /\ dec.padding = enc.padding
    /\ dec.cipherVersion = enc.cipherVersion

\* C30 as stated: for every key, plaintext, IV, flags and version in
\* {UnusedReservedUnauthenticated, AesCbcThenHmac} both encrypts return the
\* same bytes or both fail, the other implementation's decrypt returns the
\* plaintext, and both reject Aead with the unexpected-cipher-version error.
C30_CrossCompatible ==
    /\ SameBytesOrBothFail
    /\ DecryptedByOther => ReturnsPlainText
    /\ (enc.op = "AesCbcFacade.encrypt" /\ enc.cipherVersion = Aead) =>
          (~enc.out.ok /\ enc.out.err = "UnexpectedCipherVersion")
    /\ (dec.op = "AesCbcFacade.decrypt" /\ dec.cipherVersion = Aead) =>
          (~dec.out.ok /\ dec.out.err = "UnexpectedCipherVersion")

\* C30 amended: both encrypts return the same bytes or both fail; the other
\* implementation's decrypt returns the plaintext when the IV was prepended
\* or is FIXED_IV; both reject Aead, decrypt always with the
\* unexpected-cipher-version error and encrypt with it whenever the block
\* cipher accepts the plaintext, whose own error comes first otherwise.
C30_CrossCompatibleKnownIv ==
    /\ SameBytesOrBothFail
    /\ (DecryptedByOther /\ (enc.hasRandomIv \/ enc.iv = FIXED_IV)) => ReturnsPlainText
    /\ (enc.op = "AesCbcFacade.encrypt" /\ enc.cipherVersion = Aead) =>
          /\ ~enc.out.ok /\ ~EncryptByOther.ok
          /\ (enc.padding \/ Len(enc.plainText) % BLOCK_SIZE_BYTES = 0) =>
                (enc.out.err = "UnexpectedCipherVersion"
                   /\ EncryptByOther.err = "UnexpectedCipherVersion")
    /\ (dec.op = "AesCbcFacade.decrypt" /\ dec.cipherVersion = Aead) =>
          (~dec.out.ok /\ dec.out.err = "UnexpectedCipherVersion")

\* a TypeScript envelope with tag and prepended IV under the 256-bit key,
\* opened by the Java decrypt
C30_Witness ==
    /\ DecryptedByOther
    /\ enc.impl = "ts" /\ dec.impl = "java"
    /\ enc.key = Key256
    /\ enc.cipherVersion = AesCbcThenHmac
    /\ enc.hasRandomIv /\ enc.iv = Iv(1)
    /\ Len(enc.plainText) = MaxPlainLen
    /\ enc.out.val = EncryptByOther.val
    /\ ReturnsPlainText

====
